---- MODULE Spec2Model ----
(***************************************************************************)
(* RegoDB: an in-memory key-value server speaking RESP.                    *)
(*                                                                         *)
(* The model follows app/commands.go (the command handlers),               *)
(* app/server.go (the per-connection dispatch loop) and the db file        *)
(* (DB, blockedClients, blockClient, notifyBlockedClients).                *)
(*                                                                         *)
(* DB is a sync.Map: each Load, Store and Delete is atomic, a handler's    *)
(* Load ... Store sequence is not.  Every handler is therefore cut at its  *)
(* accesses to shared state: one action per DB access or critical section  *)
(* of blockedClientsMutex, with the handler's local computation and its    *)
(* writes to the connection attached to the access they follow.            *)
(***************************************************************************)
EXTENDS Integers, Sequences, FiniteSets, TLC

VARIABLES
    DB,        \* the store: key -> value (sync.Map)
    blocked,   \* blockedClients: key -> queue of record ids
    bkeys,     \* blockedClients: the keys the map holds
    mutex,     \* blockedClientsMutex: "free" or the holder
    recs,      \* the BlockedClient records, by id (order of creation)
    gor,       \* position of each record's waiting goroutine
    pc,        \* position of each connection's worker
    cmd,       \* the request each worker is serving (args)
    loc,       \* the handler's local variables
    out,       \* the replies written to each connection, in order
    nreq,      \* requests read on each connection
    issued,    \* names of the commands dispatched so far
    seen,      \* the value the LRANGE each connection sent last found at its key
    nextId,    \* next fresh list element
    now,       \* the clock (time.Now)
    crashed,   \* the process died of an unrecovered panic
    left,      \* requests the clients will still send
    serial     \* clients send a request only when no handler is running

vars == <<DB, blocked, bkeys, mutex, recs, gor, pc, cmd, loc, out, nreq, issued, seen,
          nextId, now, crashed, left, serial>>

\* ------------------------------------------------------------------ bounds

MaxCmds == 2        \* requests sent in a behaviour of Spec
MaxListCmds == 3    \* requests sent in a behaviour of SpecList
MaxSerialCmds == 3  \* requests sent in a behaviour of SpecSerial
MaxWakeCmds == 3    \* requests sent in a behaviour of SpecWake
MaxTypeCmds == 2    \* requests sent in a behaviour of SpecTypes
MaxStoreCmds == 3   \* requests sent in a behaviour of SpecStore
MaxVariantCmds == 3 \* requests sent in a behaviour of SpecVariants
MaxLenCmds == 3     \* requests sent in a behaviour of SpecLen
MaxErrorCmds == 2   \* requests sent in a behaviour of SpecErrors
MaxCloseCmds == 3   \* requests sent in a behaviour of SpecClose
MaxStreamCmds == 3  \* requests sent in a behaviour of SpecStream, SpecStreamSerial
MaxScanCmds == 3    \* requests sent in a behaviour of SpecScan
MaxRangeCmds == 3   \* requests sent in a behaviour of SpecRange
MaxIndex == 3       \* LRANGE indexes run from -MaxIndex to MaxIndex
MaxPopCmds == 4     \* requests sent in a behaviour of SpecPop
MaxScalarCmds == 3  \* requests sent in a behaviour of SpecScalar, SpecExpiry
MaxPush == 2        \* values given to one RPUSH / LPUSH
MaxTime == 2        \* last instant of the clock

Conns == {"c1", "c2"}
Keys == {"k1", "k2"}
Vals == {"v1", "v2"}

\* ------------------------------------------------------------------ values

\* app/types.go: Entry, ListEntry, StreamEntry behind DB's interface{} values.
\* t is the dynamic type; "none" stands for a key DB.Load does not find.
\* An Entry whose expiresAt is never the zero time.
EntryExpiring(v, hasExp, exp) ==
    [t |-> "string", v |-> v, hasExp |-> TRUE, exp |-> exp, els |-> <<>>, ents |-> <<>>]

Absent == [t |-> "none", v |-> "", hasExp |-> FALSE, exp |-> 0, els |-> <<>>, ents |-> <<>>]
Entry(v, hasExp, exp) ==
    [t |-> "string", v |-> v, hasExp |-> hasExp, exp |-> exp, els |-> <<>>, ents |-> <<>>]
ListEntry(els) ==
    [t |-> "list", v |-> "", hasExp |-> FALSE, exp |-> 0, els |-> els, ents |-> <<>>]
StreamEntry(ents) ==
    [t |-> "stream", v |-> "", hasExp |-> FALSE, exp |-> 0, els |-> <<>>, ents |-> ents]

\* A type assertion that takes an Entry for a ListEntry as well.
IsListOrEntry(value) == value.t \in {"list", "string"}

\* value.(ListEntry) and value.(StreamEntry): the ok of the type assertion.
IsListEntry(value) == value.t = "list"
IsStreamEntry(value) == value.t = "stream"

\* The n fresh values of a push, first..first+n-1.
Elem(i) == "e" \o ToString(i)
Elems(first, n) == [i \in 1..n |-> Elem(first + i - 1)]

\* ------------------------------------------------------------------ replies

\* resp helpers: the six reply shapes.
SimpleString(s) == [kind |-> "simple", s |-> s, n |-> 0, a |-> <<>>]
BulkString(s) == [kind |-> "bulk", s |-> s, n |-> 0, a |-> <<>>]
NullBulkString == [kind |-> "null", s |-> "", n |-> 0, a |-> <<>>]
IntegerReply(n) == [kind |-> "int", s |-> "", n |-> n, a |-> <<>>]
\* An error sent with writeSimpleString.
ErrorAsSimpleString(msg) == [kind |-> "simple", s |-> msg, n |-> 0, a |-> <<>>]

ErrorReply(msg) == [kind |-> "error", s |-> msg, n |-> 0, a |-> <<>>]
ArrayReply(a) == [kind |-> "array", s |-> "", n |-> 0, a |-> a]

WrongType == ErrorReply("WRONGTYPE Operation against a key holding the wrong kind of value")
WrongArgs(name) == ErrorReply("wrong number of arguments for '" \o name \o "' command")

\* conn.Write of one reply on connection c.  On a connection that was closed
\* the write fails, and the callers drop the error.
Write(o, c, r) == IF pc[c] = "closed" THEN o ELSE [o EXCEPT ![c] = Append(@, r)]

\* ------------------------------------------------------------------ requests

\* A decoded request.  keys: the key arguments; vals: the value arguments;
\* opt/num: the numeric argument ("none": not given, "bad": not a number,
\* "int": num); more: a further argument (the stop index of LRANGE; the entry
\* id of XADD, as the parts strings.Split(id, "-") yields: a number, or NaN
\* for a part strconv.ParseInt rejects).
Request(name, keys, vals, opt, num, more) ==
    [name |-> name, keys |-> keys, vals |-> vals, opt |-> opt, num |-> num, more |-> more]
NoRequest == Request("", <<>>, <<>>, "none", 0, <<>>)

\* i: BLPOP's position in listKeys; list: the handler's listEntry.elements;
\* wlist, client: notifyBlockedClients' listEntry.elements and client;
\* ents: handleXAdd's streamEntry.entries.
NoLocals == [i |-> 0, list |-> <<>>, wlist |-> <<>>, client |-> 0, ents |-> <<>>]

Min(a, b) == IF a < b THEN a ELSE b
Max(a, b) == IF a > b THEN a ELSE b
Range(s) == {s[i] : i \in 1..Len(s)}

\* ------------------------------------------------------------------ initial state

InitWith(budget, ser) ==
    /\ DB = [k \in Keys |-> Absent]
    /\ blocked = [k \in Keys |-> <<>>]
    /\ bkeys = {}
    /\ mutex = "free"
    /\ recs = <<>>
    /\ gor = <<>>
    /\ pc = [c \in Conns |-> "idle"]
    /\ cmd = [c \in Conns |-> NoRequest]
    /\ loc = [c \in Conns |-> NoLocals]
    /\ out = [c \in Conns |-> <<>>]
    /\ nreq = [c \in Conns |-> 0]
    /\ issued = {}
    /\ seen = [c \in Conns |-> Absent]
    /\ nextId = 1
    /\ now = 0
    /\ crashed = FALSE
    /\ left = budget
    /\ serial = ser

Init == InitWith(MaxCmds, FALSE)

\* ------------------------------------------------------------------ dispatch

AllIdle == \A c \in Conns : pc[c] = "idle"

\* handleConnection: the worker of c reads the next request and calls its
\* handler.  The worker reads a request only between two handlers.
Dispatch(c, request) ==
    /\ ~crashed
    /\ pc[c] = "idle"
    /\ left > 0
    /\ serial => AllIdle
    /\ left' = left - 1
    /\ cmd' = [cmd EXCEPT ![c] = request]
    /\ nreq' = [nreq EXCEPT ![c] = @ + 1]
    /\ issued' = issued \cup {request.name}
    /\ seen' = [seen EXCEPT ![c] = IF request.name = "LRANGE" /\ Len(request.keys) = 1
                                    THEN DB[request.keys[1]] ELSE Absent]
    /\ UNCHANGED serial

\* A step of a handler that is under way, or of a waiting goroutine.
Running == ~crashed /\ UNCHANGED <<cmd, nreq, issued, seen, left, serial>>

\* ------------------------------------------------------------------ PING, ECHO, unknown

\* commands.go handlePing
handlePing(c) ==
    /\ Dispatch(c, Request("PING", <<>>, <<>>, "none", 0, <<>>))
    /\ out' = Write(out, c, SimpleString("PONG"))
    /\ UNCHANGED <<DB, blocked, bkeys, mutex, recs, gor, pc, loc, nextId, now, crashed>>

\* commands.go handleEcho: vs is args[1:].
handleEcho(c, vs) ==
    /\ Dispatch(c, Request("ECHO", <<>>, vs, "none", 0, <<>>))
    /\ out' = Write(out, c, IF Len(vs) < 1 THEN WrongArgs("echo") ELSE BulkString(vs[1]))
    /\ UNCHANGED <<DB, blocked, bkeys, mutex, recs, gor, pc, loc, nextId, now, crashed>>

\* commands.go commandHandlers: the names that have a handler.
CommandNames == {"PING", "ECHO", "SET", "GET", "TYPE", "RPUSH", "LRANGE", "LLEN",
                 "LPUSH", "LPOP", "BLPOP", "XADD"}

\* strings.ToUpper, on the names clients send here.
ToUpper(name) ==
    CASE name = "foo" -> "FOO"
      [] name = "Bar" -> "BAR"
      [] OTHER -> name

\* An unknown command that ends the connection.
UnknownCommandClosing(c, name) ==
    /\ ToUpper(name) \notin CommandNames
    /\ Dispatch(c, Request(name, <<>>, <<>>, "none", 0, <<>>))
    /\ out' = Write(out, c, ErrorReply("unknown command '" \o ToUpper(name) \o "'"))
    /\ pc' = [pc EXCEPT ![c] = "closed"]
    /\ UNCHANGED <<DB, blocked, bkeys, mutex, recs, gor, loc, nextId, now, crashed>>

\* server.go handleConnection, the branch of a name commandHandlers lacks.
UnknownCommand(c, name) ==
    /\ ToUpper(name) \notin CommandNames
    /\ Dispatch(c, Request(name, <<>>, <<>>, "none", 0, <<>>))
    /\ out' = Write(out, c, ErrorReply("unknown command '" \o ToUpper(name) \o "'"))
    /\ UNCHANGED <<DB, blocked, bkeys, mutex, recs, gor, pc, loc, nextId, now, crashed>>

\* server.go handleConnection, a request without arguments.
EmptyCommand(c) ==
    /\ Dispatch(c, NoRequest)
    /\ out' = Write(out, c, ErrorReply("empty command"))
    /\ UNCHANGED <<DB, blocked, bkeys, mutex, recs, gor, pc, loc, nextId, now, crashed>>

\* server.go handleConnection: the client closes the connection, parseRESPArray
\* returns EOF, the worker returns and the deferred conn.Close() runs.
\* Nothing else is done for the connection.
CloseConnection(c) ==
    /\ ~crashed
    /\ pc[c] = "idle"
    /\ pc' = [pc EXCEPT ![c] = "closed"]
    /\ UNCHANGED <<DB, blocked, bkeys, mutex, recs, gor, cmd, loc, out, nreq, issued, seen,
                   nextId, now, crashed, left, serial>>

\* ------------------------------------------------------------------ SET, GET, TYPE

\* An expiry test with !Before in place of After.
ExpiredAtInstant(e) == e.hasExp /\ now >= e.exp

\* !expiresAt.IsZero() && time.Now().After(expiresAt)
Expired(e) == e.hasExp /\ now > e.exp

\* A SET that refuses a key that holds a List or a Stream.
handleSetScalarOnly(c, ks, vs, opt, ms) ==
    /\ Dispatch(c, Request("SET", ks, vs, opt, ms, <<>>))
    /\ Len(ks) + Len(vs) >= 2 /\ opt # "bad"
    /\ IF DB[ks[1]].t \in {"list", "stream"}
         THEN /\ out' = Write(out, c, WrongType)
              /\ DB' = DB
         ELSE /\ DB' = [DB EXCEPT ![ks[1]] = Entry(vs[1], opt = "int", now + ms)]
              /\ out' = Write(out, c, SimpleString("OK"))
    /\ UNCHANGED <<blocked, bkeys, mutex, recs, gor, pc, loc, nextId, now, crashed>>

\* commands.go handleSet: ks, vs are the key and the value (args[1], args[2]);
\* opt says whether "PX <ms>" follows and whether <ms> parses.
handleSet(c, ks, vs, opt, ms) ==
    /\ Dispatch(c, Request("SET", ks, vs, opt, ms, <<>>))
    /\ IF Len(ks) + Len(vs) < 2
         THEN /\ out' = Write(out, c, WrongArgs("set"))
              /\ DB' = DB
         ELSE IF opt = "bad"
         THEN /\ out' = Write(out, c, ErrorReply("PX value must be integer"))
              /\ DB' = DB
         ELSE /\ DB' = [DB EXCEPT ![ks[1]] = Entry(vs[1], opt = "int", now + ms)]
              /\ out' = Write(out, c, SimpleString("OK"))
    /\ UNCHANGED <<blocked, bkeys, mutex, recs, gor, pc, loc, nextId, now, crashed>>

\* commands.go handleGet up to the expiry test.  value.(Entry) is an
\* unchecked type assertion: on a ListEntry or StreamEntry it panics, nothing
\* recovers the panic, and the process ends.
handleGet(c, ks) ==
    /\ Dispatch(c, Request("GET", ks, <<>>, "none", 0, <<>>))
    /\ IF Len(ks) < 1
         THEN /\ out' = Write(out, c, WrongArgs("get"))
              /\ UNCHANGED <<pc, crashed>>
         ELSE LET value == DB[ks[1]] IN
              IF value.t = "none"
              THEN /\ out' = Write(out, c, NullBulkString)
                   /\ UNCHANGED <<pc, crashed>>
              ELSE IF value.t # "string"
              THEN /\ crashed' = TRUE
                   /\ UNCHANGED <<out, pc>>
              ELSE IF Expired(value)
              THEN /\ pc' = [pc EXCEPT ![c] = "get_delete"]
                   /\ UNCHANGED <<out, crashed>>
              ELSE /\ out' = Write(out, c, BulkString(value.v))
                   /\ UNCHANGED <<pc, crashed>>
    /\ UNCHANGED <<DB, blocked, bkeys, mutex, recs, gor, loc, nextId, now>>

\* commands.go handleGet, the expired branch: DB.Delete, then the null reply.
GetDelete(c) ==
    /\ Running
    /\ pc[c] = "get_delete"
    /\ DB' = [DB EXCEPT ![cmd[c].keys[1]] = Absent]
    /\ out' = Write(out, c, NullBulkString)
    /\ pc' = [pc EXCEPT ![c] = "idle"]
    /\ UNCHANGED <<blocked, bkeys, mutex, recs, gor, loc, nextId, now, crashed>>

\* A type switch without the case of StreamEntry: the default answers "none".
TypeNameWithoutStream(value) == IF value.t = "stream" THEN "none" ELSE value.t

\* handleType's switch on the type of the value: the name it answers.
TypeName(value) == value.t

\* commands.go handleType up to the expiry test.
handleType(c, ks) ==
    /\ Dispatch(c, Request("TYPE", ks, <<>>, "none", 0, <<>>))
    /\ IF Len(ks) < 1
         THEN /\ out' = Write(out, c, WrongArgs("type"))
              /\ pc' = pc
         ELSE LET value == DB[ks[1]] IN
              IF value.t = "string" /\ Expired(value)
              THEN /\ pc' = [pc EXCEPT ![c] = "type_delete"]
                   /\ out' = out
              ELSE /\ out' = Write(out, c, SimpleString(TypeName(value)))
                   /\ pc' = pc
    /\ UNCHANGED <<DB, blocked, bkeys, mutex, recs, gor, loc, nextId, now, crashed>>

\* commands.go handleType, the expired branch.
TypeDelete(c) ==
    /\ Running
    /\ pc[c] = "type_delete"
    /\ DB' = [DB EXCEPT ![cmd[c].keys[1]] = Absent]
    /\ out' = Write(out, c, SimpleString("none"))
    /\ pc' = [pc EXCEPT ![c] = "idle"]
    /\ UNCHANGED <<blocked, bkeys, mutex, recs, gor, loc, nextId, now, crashed>>

\* The clock advances.
Tick ==
    /\ ~crashed
    /\ now < MaxTime
    /\ now' = now + 1
    /\ UNCHANGED <<DB, blocked, bkeys, mutex, recs, gor, pc, cmd, loc, out, nreq, issued,
                   seen, nextId, crashed, left, serial>>

\* ------------------------------------------------------------------ RPUSH, LPUSH

\* handleRPush: listEntry.elements = append(listEntry.elements, args[i]), i = 2..
RPushElements(elements, args) == elements \o args

\* A prepend of the arguments as one block, in the order given.
LPushElementsInOrder(elements, args) == args \o elements

\* handleLPush: listEntry.elements = append([]string{args[i]}, elements...), i = 2..
RECURSIVE LPushElements(_, _)
LPushElements(elements, args) ==
    IF args = <<>> THEN elements
    ELSE LPushElements(<<Head(args)>> \o elements, Tail(args))

\* commands.go handleRPush / handleLPush up to DB.Store: the arity check, DB.Load,
\* the type assertion and the new elements.  n is the number of values given.
PushLoad(c, name, k, n) ==
    /\ Dispatch(c, Request(name, <<k>>, Elems(nextId, n), "none", 0, <<>>))
    /\ nextId' = nextId + n
    /\ IF n < 1
         THEN /\ out' = Write(out, c, WrongArgs(IF name = "RPUSH" THEN "rpush" ELSE "lpush"))
              /\ UNCHANGED <<pc, loc>>
         ELSE IF DB[k].t # "none" /\ ~IsListEntry(DB[k])
         THEN /\ out' = Write(out, c, WrongType)
              /\ UNCHANGED <<pc, loc>>
         ELSE /\ loc' = [loc EXCEPT ![c] = [NoLocals EXCEPT !.list =
                           IF name = "RPUSH"
                           THEN RPushElements(DB[k].els, Elems(nextId, n))
                           ELSE LPushElements(DB[k].els, Elems(nextId, n))]]
              /\ pc' = [pc EXCEPT ![c] = "push_store"]
              /\ out' = out
    /\ UNCHANGED <<DB, blocked, bkeys, mutex, recs, gor, now, crashed>>

handleRPush(c, k, n) == PushLoad(c, "RPUSH", k, n)

handleLPush(c, k, n) == PushLoad(c, "LPUSH", k, n)

\* handleRPush / handleLPush: DB.Store(key, listEntry)
PushStore(c) ==
    /\ Running
    /\ pc[c] = "push_store"
    /\ DB' = [DB EXCEPT ![cmd[c].keys[1]] = ListEntry(loc[c].list)]
    /\ pc' = [pc EXCEPT ![c] = "notify"]
    /\ UNCHANGED <<blocked, bkeys, mutex, recs, gor, loc, out, nextId, now, crashed>>

\* A wake routine that picks the client that came last.
PickLastClient(clients) == clients[Len(clients)]

\* notifyBlockedClients picks the longest-waiting client: clients[0].
PickClient(clients) == clients[1]

\* A wake routine that also returns early on a list of one element.
NothingToPopBelowTwo(clients, value) ==
    clients = <<>> \/ value.t = "none" \/ ~IsListEntry(value) \/ Len(value.els) < 2

\* notifyBlockedClients' early returns: no client waits on the key, or the key
\* holds no non-empty list.
NothingToPop(clients, value) ==
    clients = <<>> \/ value.t = "none" \/ ~IsListEntry(value) \/ value.els = <<>>

\* A mutex that lets everyone in.
CanLockAlways == TRUE

\* blockedClientsMutex.Lock() returns once nobody holds the mutex.
CanLock == mutex = "free"

\* notifyBlockedClients, from Lock to DB.Load.
notifyBlockedClients(c) ==
    /\ Running
    /\ pc[c] = "notify"
    /\ CanLock
    /\ LET listKey == cmd[c].keys[1]
           clients == blocked[listKey]
           value == DB[listKey]
       IN IF NothingToPop(clients, value)
          THEN /\ pc' = [pc EXCEPT ![c] = "push_reply"]
               /\ UNCHANGED <<mutex, loc>>
          ELSE /\ mutex' = c
               /\ loc' = [loc EXCEPT ![c].wlist = value.els,
                                     ![c].client = PickClient(clients)]
               /\ pc' = [pc EXCEPT ![c] = "notify_pop"]
    /\ UNCHANGED <<DB, blocked, bkeys, recs, gor, out, nextId, now, crashed>>

\* A pop that stores what is left of the list, elements or none.
AlwaysStore(rest) == ListEntry(rest)

\* A pop that deletes the key whatever is left of the list.
AlwaysDelete(rest) == Absent

\* The list a pop leaves behind: DB.Delete when it is empty, DB.Store otherwise.
StoreOrDelete(rest) == IF rest = <<>> THEN Absent ELSE ListEntry(rest)

\* A wake routine that leaves the queue as it found it.
DropNothing(clients) == clients

\* blockedClients[listKey] = clients[1:], the key deleted when that is empty.
DropFirst(clients) == Tail(clients)

\* A map that keeps the key of a queue that became empty.
KeysAfterKeeping(keys, listKey, clients) == keys

\* if len(blockedClients[listKey]) == 0 { delete(blockedClients, listKey) }
KeysAfter(keys, listKey, clients) ==
    IF clients = <<>> THEN keys \ {listKey} ELSE keys

\* notifyBlockedClients, from the pop to Unlock: the head element leaves the
\* list, [listKey, element] is written to the client's connection, the client
\* leaves the queue and its done channel is closed (closing a closed channel
\* panics).
NotifyPop(c) ==
    /\ Running
    /\ pc[c] = "notify_pop"
    /\ LET listKey == cmd[c].keys[1]
           client == loc[c].client
           poppedElement == loc[c].wlist[1]
       IN /\ DB' = [DB EXCEPT ![listKey] = StoreOrDelete(Tail(loc[c].wlist))]
          /\ out' = Write(out, recs[client].conn, ArrayReply(<<listKey, poppedElement>>))
          /\ blocked' = [blocked EXCEPT ![listKey] = DropFirst(@)]
          /\ bkeys' = KeysAfter(bkeys, listKey, DropFirst(blocked[listKey]))
          /\ recs' = [recs EXCEPT ![client].done = TRUE]
          /\ crashed' = recs[client].done
    /\ mutex' = "free"
    /\ pc' = [pc EXCEPT ![c] = "push_reply"]
    /\ UNCHANGED <<gor, loc, nextId, now>>

\* A push that replies the length the list has after the wake routine.
PushReplyAfterWake(c) ==
    /\ Running
    /\ pc[c] = "push_reply"
    /\ out' = Write(out, c, IntegerReply(Len(DB[cmd[c].keys[1]].els)))
    /\ pc' = [pc EXCEPT ![c] = "idle"]
    /\ loc' = [loc EXCEPT ![c] = NoLocals]
    /\ UNCHANGED <<DB, blocked, bkeys, mutex, recs, gor, nextId, now, crashed>>

\* handleRPush / handleLPush: writeInteger(conn, len(listEntry.elements))
PushReply(c) ==
    /\ Running
    /\ pc[c] = "push_reply"
    /\ out' = Write(out, c, IntegerReply(Len(loc[c].list)))
    /\ pc' = [pc EXCEPT ![c] = "idle"]
    /\ loc' = [loc EXCEPT ![c] = NoLocals]
    /\ UNCHANGED <<DB, blocked, bkeys, mutex, recs, gor, nextId, now, crashed>>

\* ------------------------------------------------------------------ LPOP, LLEN, LRANGE

SubSeqOrEmpty(s, m, n) == IF m > n THEN <<>> ELSE SubSeq(s, m, n)

\* commands.go handleLPop up to the store: arity, count, DB.Load, type, the
\* split of the list.  opt = "none": no count; "bad": count does not parse.
handleLPop(c, ks, opt, count) ==
    /\ Dispatch(c, Request("LPOP", ks, <<>>, opt, count, <<>>))
    /\ IF Len(ks) < 1
         THEN /\ out' = Write(out, c, WrongArgs("lpop"))
              /\ UNCHANGED <<pc, loc>>
         ELSE IF opt = "bad" \/ (opt = "int" /\ count < 0)
         THEN /\ out' = Write(out, c, ErrorReply("value is not an integer or out of range"))
              /\ UNCHANGED <<pc, loc>>
         ELSE LET value == DB[ks[1]] IN
              IF value.t = "none" \/ (IsListEntry(value) /\ value.els = <<>>)
              THEN /\ out' = Write(out, c, IF opt = "int" THEN ArrayReply(<<>>)
                                           ELSE NullBulkString)
                   /\ UNCHANGED <<pc, loc>>
              ELSE IF ~IsListEntry(value)
              THEN /\ out' = Write(out, c, WrongType)
                   /\ UNCHANGED <<pc, loc>>
              ELSE /\ loc' = [loc EXCEPT ![c] = [NoLocals EXCEPT !.list = value.els]]
                   /\ pc' = [pc EXCEPT ![c] = "lpop_store"]
                   /\ out' = out
    /\ UNCHANGED <<DB, blocked, bkeys, mutex, recs, gor, nextId, now, crashed>>

\* A count that is read but not used.
ElementsToRemoveIgnoringCount(request, elements) == Min(1, Len(elements))

\* handleLPop: elementsToRemove := min(count, len(listEntry.elements)), count 1
\* when none is given.
ElementsToRemove(request, elements) ==
    Min(IF request.opt = "int" THEN request.num ELSE 1, Len(elements))

\* handleLPop: removedElements := listEntry.elements[:elementsToRemove]
RemovedElements(elements, n) == SubSeqOrEmpty(elements, 1, n)

\* A list that is not re-sliced after the pop.
RemainingKeepsHead(elements, n) == elements

\* handleLPop: listEntry.elements = listEntry.elements[elementsToRemove:]
RemainingElements(elements, n) == SubSeqOrEmpty(elements, n + 1, Len(elements))

\* handleLPop from the store to the reply.
LPopStore(c) ==
    /\ Running
    /\ pc[c] = "lpop_store"
    /\ LET elements == loc[c].list
           n == ElementsToRemove(cmd[c], elements)
           removedElements == RemovedElements(elements, n)
           rest == RemainingElements(elements, n)
       IN /\ DB' = [DB EXCEPT ![cmd[c].keys[1]] = StoreOrDelete(rest)]
          /\ out' = Write(out, c, IF cmd[c].opt = "int" THEN ArrayReply(removedElements)
                                  ELSE BulkString(removedElements[1]))
    /\ pc' = [pc EXCEPT ![c] = "idle"]
    /\ loc' = [loc EXCEPT ![c] = NoLocals]
    /\ UNCHANGED <<blocked, bkeys, mutex, recs, gor, nextId, now, crashed>>

\* An LLEN that answers the index of the last element.
handleLLenLastIndex(c, ks) ==
    /\ Dispatch(c, Request("LLEN", ks, <<>>, "none", 0, <<>>))
    /\ out' = Write(out, c,
                IF Len(ks) # 1 THEN WrongArgs("llen")
                ELSE IF DB[ks[1]].t = "none" THEN IntegerReply(0)
                ELSE IF ~IsListEntry(DB[ks[1]]) THEN WrongType
                ELSE IntegerReply(Len(DB[ks[1]].els) - 1))
    /\ UNCHANGED <<DB, blocked, bkeys, mutex, recs, gor, pc, loc, nextId, now, crashed>>

\* commands.go handleLLen
handleLLen(c, ks) ==
    /\ Dispatch(c, Request("LLEN", ks, <<>>, "none", 0, <<>>))
    /\ out' = Write(out, c,
                IF Len(ks) # 1 THEN WrongArgs("llen")
                ELSE IF DB[ks[1]].t = "none" THEN IntegerReply(0)
                ELSE IF ~IsListEntry(DB[ks[1]]) THEN WrongType
                ELSE IntegerReply(Len(DB[ks[1]].els)))
    /\ UNCHANGED <<DB, blocked, bkeys, mutex, recs, gor, pc, loc, nextId, now, crashed>>

\* handleLRange's slice of elems for the parsed start and stop.
LRangeResult(elems, start0, stop0) ==
    LET listLen == Len(elems)
        start == IF start0 < 0 THEN Max(listLen + start0, 0) ELSE start0
        stop1 == IF stop0 < 0 THEN Max(listLen + stop0, 0) ELSE stop0
        stop == IF stop1 >= listLen THEN listLen - 1 ELSE stop1
    IN IF start >= listLen \/ start > stop THEN <<>>
       ELSE SubSeq(elems, start + 1, stop + 1)

\* An LRANGE that stores the slice it returns back at the key.
handleLRangeStoring(c, ks, opt, start, stop) ==
    /\ Dispatch(c, Request("LRANGE", ks, <<>>, opt, start, <<stop>>))
    /\ opt = "int" /\ Len(ks) = 1
    /\ out' = Write(out, c,
                IF DB[ks[1]].t = "none" THEN ArrayReply(<<>>)
                ELSE IF ~IsListEntry(DB[ks[1]]) THEN WrongType
                ELSE ArrayReply(LRangeResult(DB[ks[1]].els, start, stop)))
    /\ DB' = [DB EXCEPT ![ks[1]] =
                IF IsListEntry(DB[ks[1]])
                THEN ListEntry(LRangeResult(DB[ks[1]].els, start, stop)) ELSE @]
    /\ UNCHANGED <<blocked, bkeys, mutex, recs, gor, pc, loc, nextId, now, crashed>>

\* commands.go handleLRange.  opt = "bad": an index does not parse.
handleLRange(c, ks, opt, start, stop) ==
    /\ Dispatch(c, Request("LRANGE", ks, <<>>, opt, start, <<stop>>))
    /\ out' = Write(out, c,
                IF Len(ks) # 1 \/ opt = "none" THEN WrongArgs("lrange")
                ELSE IF opt = "bad" THEN ErrorReply("invalid start index")
                ELSE IF DB[ks[1]].t = "none" THEN ArrayReply(<<>>)
                ELSE IF ~IsListEntry(DB[ks[1]]) THEN WrongType
                ELSE ArrayReply(LRangeResult(DB[ks[1]].els, start, stop)))
    /\ UNCHANGED <<DB, blocked, bkeys, mutex, recs, gor, pc, loc, nextId, now, crashed>>

\* ------------------------------------------------------------------ BLPOP

\* A loop body that takes a key of another type for a key that is not ready.
BLPopLookSkippingTypes(c, request, i) ==
    LET value == DB[request.keys[i]] IN
    IF IsListEntry(value) /\ value.els # <<>>
    THEN /\ loc' = [loc EXCEPT ![c] = [NoLocals EXCEPT !.i = i, !.list = value.els]]
         /\ pc' = [pc EXCEPT ![c] = "blpop_store"]
         /\ out' = out
    ELSE /\ loc' = [loc EXCEPT ![c] = [NoLocals EXCEPT !.i = i]]
         /\ pc' = [pc EXCEPT ![c] = IF i < Len(request.keys) THEN "blpop_scan"
                                    ELSE "block"]
         /\ out' = out

\* handleBLPop's loop body for listKeys[i]: DB.Load and the tests on the value.
\* A key that is ready leads to the pop, a key of another type ends the
\* command, any other key lets the loop go on; after the last key the client
\* is to be blocked.
BLPopLook(c, request, i) ==
    LET value == DB[request.keys[i]] IN
    IF value.t # "none" /\ ~IsListEntry(value)
    THEN /\ out' = Write(out, c, WrongType)
         /\ pc' = [pc EXCEPT ![c] = "idle"]
         /\ loc' = [loc EXCEPT ![c] = NoLocals]
    ELSE IF IsListEntry(value) /\ value.els # <<>>
    THEN /\ loc' = [loc EXCEPT ![c] = [NoLocals EXCEPT !.i = i, !.list = value.els]]
         /\ pc' = [pc EXCEPT ![c] = "blpop_store"]
         /\ out' = out
    ELSE /\ loc' = [loc EXCEPT ![c] = [NoLocals EXCEPT !.i = i]]
         /\ pc' = [pc EXCEPT ![c] = IF i < Len(request.keys) THEN "blpop_scan"
                                    ELSE "block"]
         /\ out' = out

\* commands.go handleBLPop up to the first DB.Load: arity, the timeout.
handleBLPop(c, ks, opt, timeout) ==
    /\ Dispatch(c, Request("BLPOP", ks, <<>>, opt, timeout, <<>>))
    /\ IF Len(ks) < 1 \/ opt = "none"
         THEN /\ out' = Write(out, c, WrongArgs("blpop"))
              /\ UNCHANGED <<pc, loc>>
         ELSE IF opt = "bad"
         THEN /\ out' = Write(out, c, ErrorReply("timeout is not a float or out of range"))
              /\ UNCHANGED <<pc, loc>>
         ELSE BLPopLook(c, Request("BLPOP", ks, <<>>, opt, timeout, <<>>), 1)
    /\ UNCHANGED <<DB, blocked, bkeys, mutex, recs, gor, nextId, now, crashed>>

\* A loop over listKeys that gives up after the first key.
BLPopScanGivesUp(c) ==
    /\ Running
    /\ pc[c] = "blpop_scan"
    /\ pc' = [pc EXCEPT ![c] = "block"]
    /\ UNCHANGED <<DB, blocked, bkeys, mutex, recs, gor, loc, out, nextId, now, crashed>>

\* handleBLPop: the next iteration of the loop over listKeys.
BLPopScan(c) ==
    /\ Running
    /\ pc[c] = "blpop_scan"
    /\ BLPopLook(c, cmd[c], loc[c].i + 1)
    /\ UNCHANGED <<DB, blocked, bkeys, mutex, recs, gor, nextId, now, crashed>>

\* handleBLPop: the immediate pop of the key found ready, and its reply.
BLPopStore(c) ==
    /\ Running
    /\ pc[c] = "blpop_store"
    /\ LET key == cmd[c].keys[loc[c].i]
           poppedElement == loc[c].list[1]
       IN /\ DB' = [DB EXCEPT ![key] = StoreOrDelete(Tail(loc[c].list))]
          /\ out' = Write(out, c, ArrayReply(<<key, poppedElement>>))
    /\ pc' = [pc EXCEPT ![c] = "idle"]
    /\ loc' = [loc EXCEPT ![c] = NoLocals]
    /\ UNCHANGED <<blocked, bkeys, mutex, recs, gor, nextId, now, crashed>>

\* A BLPOP that blocks the client on the last of its keys.
BlockLastKey(listKeys) == listKeys[Len(listKeys)]

\* handleBLPop blocks the client on listKeys[0].
BlockKey(listKeys) == listKeys[1]

\* types.go BlockedClient
BlockedClient(conn, listKey, timeout, startTime) ==
    [conn |-> conn, listKey |-> listKey, timeout |-> timeout,
     startTime |-> startTime, done |-> FALSE]

\* blockClient: the record joins the queue of its key under the mutex and a
\* goroutine is started to wait for it.  blockClient then returns, and so
\* does handleBLPop: the worker goes back to reading requests.
blockClient(c) ==
    /\ Running
    /\ pc[c] = "block"
    /\ CanLock
    /\ LET listKey == BlockKey(cmd[c].keys) IN
       /\ recs' = Append(recs, BlockedClient(c, listKey, cmd[c].num, now))
       /\ blocked' = [blocked EXCEPT ![listKey] = Append(@, Len(recs) + 1)]
       /\ bkeys' = bkeys \cup {listKey}
    /\ gor' = Append(gor, "select")
    /\ pc' = [pc EXCEPT ![c] = "idle"]
    /\ loc' = [loc EXCEPT ![c] = NoLocals]
    /\ UNCHANGED <<DB, mutex, out, nextId, now, crashed>>

\* A goroutine whose timer runs for timeout 0 as well.
TimerFireAlways(r) ==
    /\ Running
    /\ gor[r] = "select"
    /\ out' = Write(out, recs[r].conn, NullBulkString)
    /\ gor' = [gor EXCEPT ![r] = "timeout"]
    /\ UNCHANGED <<DB, blocked, bkeys, mutex, recs, pc, loc, nextId, now, crashed>>

\* The goroutine of record r, the select's time.After case: it is there for
\* a timeout other than zero.  When done is closed as well, select takes
\* either case.  The null reply is written; the deferred removal follows.
TimerFire(r) ==
    /\ Running
    /\ gor[r] = "select"
    /\ recs[r].timeout # 0
    /\ out' = Write(out, recs[r].conn, NullBulkString)
    /\ gor' = [gor EXCEPT ![r] = "timeout"]
    /\ UNCHANGED <<DB, blocked, bkeys, mutex, recs, pc, loc, nextId, now, crashed>>

\* The queue without client r.
RemoveClient(clients, r) == SelectSeq(clients, LAMBDA x : x # r)

\* The goroutine of record r, its deferred function: after <-client.done or
\* after the timeout it removes the client from the queue, under the mutex.
DeferredRemove(r) ==
    /\ Running
    /\ \/ gor[r] = "select" /\ recs[r].done
       \/ gor[r] = "timeout"
    /\ CanLock
    /\ blocked' = [blocked EXCEPT ![recs[r].listKey] = RemoveClient(@, r)]
    /\ bkeys' = IF r \in Range(blocked[recs[r].listKey])
                THEN KeysAfter(bkeys, recs[r].listKey,
                               RemoveClient(blocked[recs[r].listKey], r))
                ELSE bkeys
    /\ gor' = [gor EXCEPT ![r] = IF gor[r] = "timeout" THEN "exit_timeout" ELSE "exit_done"]
    /\ UNCHANGED <<DB, mutex, recs, pc, loc, out, nextId, now, crashed>>

\* ------------------------------------------------------------------ XADD

NaN == -1

\* The entry id as the client wrote it.
RECURSIVE EntryIDString(_)
EntryIDString(parts) ==
    IF parts = <<>> THEN ""
    ELSE (IF Head(parts) = NaN THEN "x" ELSE ToString(Head(parts)))
         \o (IF Len(parts) > 1 THEN "-" ELSE "") \o EntryIDString(Tail(parts))

\* A parse that takes a part that is no number for 0.
parseEntryIDIgnoringErrors(parts) ==
    IF Len(parts) # 2 THEN [ts |-> 0, seq |-> 0, err |-> "invalid entry ID format"]
    ELSE [ts |-> IF parts[1] = NaN THEN 0 ELSE parts[1],
          seq |-> IF parts[2] = NaN THEN 1 ELSE parts[2], err |-> ""]

\* commands.go parseEntryID: timestamp, sequence and the error ("" for none).
parseEntryID(parts) ==
    IF Len(parts) # 2 THEN [ts |-> 0, seq |-> 0, err |-> "invalid entry ID format"]
    ELSE IF parts[1] = NaN THEN [ts |-> 0, seq |-> 0, err |-> "invalid timestamp in entry ID"]
    ELSE IF parts[2] = NaN
    THEN [ts |-> 0, seq |-> 0, err |-> "invalid sequence number in entry ID"]
    ELSE [ts |-> parts[1], seq |-> parts[2], err |-> ""]

\* A validation that compares the sequence numbers with < in place of <=.
validateEntryIDAllowingEqual(newID, entries) ==
    LET new == parseEntryID(newID) IN
    IF new.err # "" THEN new.err
    ELSE IF new.ts = 0 /\ new.seq = 0
    THEN "The ID specified in XADD must be greater than 0-0"
    ELSE IF entries = <<>> THEN ""
    ELSE LET last == parseEntryID(entries[Len(entries)].id) IN
         IF new.ts < last.ts \/ (new.ts = last.ts /\ new.seq < last.seq)
         THEN "The ID specified in XADD is equal or smaller than the target stream top item"
         ELSE ""

\* commands.go validateEntryID: the error, "" when the id is accepted.
validateEntryID(newID, entries) ==
    LET new == parseEntryID(newID) IN
    IF new.err # "" THEN new.err
    ELSE IF new.ts = 0 /\ new.seq = 0
    THEN "The ID specified in XADD must be greater than 0-0"
    ELSE IF entries = <<>> THEN ""
    ELSE LET last == parseEntryID(entries[Len(entries)].id) IN
         IF last.err # "" THEN last.err
         ELSE IF new.ts < last.ts \/ (new.ts = last.ts /\ new.seq <= last.seq)
         THEN "The ID specified in XADD is equal or smaller than the target stream top item"
         ELSE ""

\* handleXAdd's data map of the field-value pairs: a later pair of the same
\* field replaces an earlier one.
EntryData(fv) ==
    LET pairs == 1..(Len(fv) \div 2)
        fields == {fv[2 * i - 1] : i \in pairs}
        lastOf(f) == CHOOSE i \in pairs :
                        fv[2 * i - 1] = f /\ \A j \in pairs : fv[2 * j - 1] = f => j <= i
    IN [f \in fields |-> fv[2 * lastOf(f)]]

\* commands.go handleXAdd up to DB.Store: arity, the pairs, DB.Load, the type
\* assertion, validateEntryID.  id: the entry id; fv: the arguments after it.
handleXAdd(c, ks, id, fv) ==
    /\ Dispatch(c, Request("XADD", ks, fv, "none", 0, id))
    /\ IF Len(ks) < 1 \/ Len(fv) < 1 \/ Len(fv) % 2 # 0
         THEN /\ out' = Write(out, c, WrongArgs("xadd"))
              /\ UNCHANGED <<pc, loc>>
         ELSE LET value == DB[ks[1]] IN
              IF value.t # "none" /\ ~IsStreamEntry(value)
              THEN /\ out' = Write(out, c, WrongType)
                   /\ UNCHANGED <<pc, loc>>
              ELSE IF validateEntryID(id, value.ents) # ""
              THEN /\ out' = Write(out, c, ErrorReply(validateEntryID(id, value.ents)))
                   /\ UNCHANGED <<pc, loc>>
              ELSE /\ loc' = [loc EXCEPT ![c] = [NoLocals EXCEPT !.ents =
                                Append(value.ents, [id |-> id, data |-> EntryData(fv)])]]
                   /\ pc' = [pc EXCEPT ![c] = "xadd_store"]
                   /\ out' = out
    /\ UNCHANGED <<DB, blocked, bkeys, mutex, recs, gor, nextId, now, crashed>>

\* handleXAdd from DB.Store to the reply.
XAddStore(c) ==
    /\ Running
    /\ pc[c] = "xadd_store"
    /\ DB' = [DB EXCEPT ![cmd[c].keys[1]] = StreamEntry(loc[c].ents)]
    /\ out' = Write(out, c, BulkString(EntryIDString(cmd[c].more)))
    /\ pc' = [pc EXCEPT ![c] = "idle"]
    /\ loc' = [loc EXCEPT ![c] = NoLocals]
    /\ UNCHANGED <<blocked, bkeys, mutex, recs, gor, nextId, now, crashed>>

\* ------------------------------------------------------------------ the requests clients send

OneKey == {<<k>> : k \in Keys}
KeyLists == OneKey \cup {<<"k1", "k2">>}
PXArgs == {<<"none", 0>>, <<"bad", 0>>, <<"int", 1>>}
CountArgs == {<<"none", 0>>, <<"bad", 0>>, <<"int", -1>>, <<"int", 0>>, <<"int", 2>>}
TimeoutArgs == {<<"bad", 0>>, <<"int", 0>>, <<"int", 1>>}
RangeArgs == {<<"bad", 0, 0>>, <<"int", 0, -1>>, <<"int", 1, 1>>}
EntryIDs == {<<0, 0>>, <<1, 0>>, <<1, 1>>, <<1>>}
FieldArgs == {<<"f">>, <<"f", "v1">>}

\* ------------------------------------------------------------------ the server

\* Every request on every key, MaxCmds requests in all.
Next ==
    \/ \E c \in Conns : handlePing(c)
    \/ \E c \in Conns, vs \in {<<>>, <<"v1">>} : handleEcho(c, vs)
    \/ \E c \in Conns : UnknownCommand(c, "FOO")
    \/ \E c \in Conns : EmptyCommand(c)
    \/ \E c \in Conns : CloseConnection(c)
    \/ \E c \in Conns, ks \in OneKey, vs \in {<<v>> : v \in Vals}, a \in PXArgs :
          handleSet(c, ks, vs, a[1], a[2])
    \/ \E c \in Conns, ks \in OneKey : handleGet(c, ks)
    \/ \E c \in Conns : GetDelete(c)
    \/ \E c \in Conns, ks \in OneKey : handleType(c, ks)
    \/ \E c \in Conns : TypeDelete(c)
    \/ Tick
    \/ \E c \in Conns, k \in Keys, n \in 1..MaxPush : handleRPush(c, k, n)
    \/ \E c \in Conns, k \in Keys, n \in 1..MaxPush : handleLPush(c, k, n)
    \/ \E c \in Conns : PushStore(c)
    \/ \E c \in Conns : notifyBlockedClients(c)
    \/ \E c \in Conns : NotifyPop(c)
    \/ \E c \in Conns : PushReply(c)
    \/ \E c \in Conns, ks \in OneKey, a \in CountArgs : handleLPop(c, ks, a[1], a[2])
    \/ \E c \in Conns : LPopStore(c)
    \/ \E c \in Conns, ks \in OneKey : handleLLen(c, ks)
    \/ \E c \in Conns, ks \in OneKey, a \in RangeArgs : handleLRange(c, ks, a[1], a[2], a[3])
    \/ \E c \in Conns, ks \in KeyLists, a \in TimeoutArgs : handleBLPop(c, ks, a[1], a[2])
    \/ \E c \in Conns : BLPopScan(c)
    \/ \E c \in Conns : BLPopStore(c)
    \/ \E c \in Conns : blockClient(c)
    \/ \E r \in 1..Len(recs) : TimerFire(r)
    \/ \E r \in 1..Len(recs) : DeferredRemove(r)
    \/ \E c \in Conns, ks \in OneKey, id \in EntryIDs, fv \in FieldArgs :
          handleXAdd(c, ks, id, fv)
    \/ \E c \in Conns : XAddStore(c)

Spec == Init /\ [][Next]_vars

\* ------------------------------------------------------------------ list commands on one key

\* RPUSH, LPUSH, LPOP and BLPOP on key k1, from both connections, with the
\* waiting goroutines.
NextList ==
    \/ \E c \in Conns, n \in 1..MaxPush : handleRPush(c, "k1", n)
    \/ \E c \in Conns, n \in 1..MaxPush : handleLPush(c, "k1", n)
    \/ \E c \in Conns : PushStore(c)
    \/ \E c \in Conns : notifyBlockedClients(c)
    \/ \E c \in Conns : NotifyPop(c)
    \/ \E c \in Conns : PushReply(c)
    \/ \E c \in Conns, a \in {<<"none", 0>>, <<"int", 2>>} :
          handleLPop(c, <<"k1">>, a[1], a[2])
    \/ \E c \in Conns : LPopStore(c)
    \/ \E c \in Conns, timeout \in {0, 1} : handleBLPop(c, <<"k1">>, "int", timeout)
    \/ \E c \in Conns : BLPopStore(c)
    \/ \E c \in Conns : blockClient(c)
    \/ \E r \in 1..Len(recs) : TimerFire(r)
    \/ \E r \in 1..Len(recs) : DeferredRemove(r)

\* Workers that run concurrently.
SpecList == InitWith(MaxListCmds, FALSE) /\ [][NextList]_vars

\* Clients that wait for a command to end before the next one is sent; the
\* waiting goroutines run as they like.
SpecSerial == InitWith(MaxSerialCmds, TRUE) /\ [][NextList]_vars

\* ------------------------------------------------------------------ producers and waiters

\* RPUSH and BLPOP on key k1 alone.
NextWake ==
    \/ \E c \in Conns, n \in 1..MaxPush : handleRPush(c, "k1", n)
    \/ \E c \in Conns : PushStore(c)
    \/ \E c \in Conns : notifyBlockedClients(c)
    \/ \E c \in Conns : NotifyPop(c)
    \/ \E c \in Conns : PushReply(c)
    \/ \E c \in Conns, timeout \in {0, 1} : handleBLPop(c, <<"k1">>, "int", timeout)
    \/ \E c \in Conns : BLPopStore(c)
    \/ \E c \in Conns : blockClient(c)
    \/ \E r \in 1..Len(recs) : TimerFire(r)
    \/ \E r \in 1..Len(recs) : DeferredRemove(r)

SpecWake == InitWith(MaxWakeCmds, FALSE) /\ [][NextWake]_vars

\* ------------------------------------------------------------------ commands against another type

\* A Scalar (SET), a Stream (XADD) or a List (RPUSH, LPUSH) is put at key k1,
\* and every command that reads the key is sent against it, well-formed or not.
NextTypes ==
    \/ \E c \in Conns : handleSet(c, <<"k1">>, <<"v1">>, "none", 0)
    \/ \E c \in Conns, fv \in FieldArgs : handleXAdd(c, <<"k1">>, <<1, 0>>, fv)
    \/ \E c \in Conns : XAddStore(c)
    \/ \E c \in Conns : handleRPush(c, "k1", 1)
    \/ \E c \in Conns : handleLPush(c, "k1", 1)
    \/ \E c \in Conns : PushStore(c)
    \/ \E c \in Conns : notifyBlockedClients(c)
    \/ \E c \in Conns : NotifyPop(c)
    \/ \E c \in Conns : PushReply(c)
    \/ \E c \in Conns, a \in {<<"none", 0>>, <<"bad", 0>>} : handleLPop(c, <<"k1">>, a[1], a[2])
    \/ \E c \in Conns : LPopStore(c)
    \/ \E c \in Conns : handleLLen(c, <<"k1">>)
    \/ \E c \in Conns, a \in {<<"bad", 0, 0>>, <<"int", 0, -1>>} :
          handleLRange(c, <<"k1">>, a[1], a[2], a[3])
    \/ \E c \in Conns, a \in TimeoutArgs : handleBLPop(c, <<"k1">>, a[1], a[2])
    \/ \E c \in Conns : BLPopStore(c)
    \/ \E c \in Conns : blockClient(c)
    \/ \E r \in 1..Len(recs) : TimerFire(r)
    \/ \E r \in 1..Len(recs) : DeferredRemove(r)
    \/ \E c \in Conns : handleGet(c, <<"k1">>)

SpecTypes == InitWith(MaxTypeCmds, FALSE) /\ [][NextTypes]_vars

\* ------------------------------------------------------------------ writers of one key

\* Every command that writes key k1 (SET, RPUSH, LPUSH, LPOP, BLPOP, and the
\* wake of a waiter by a push), from both connections at once.
NextStore ==
    \/ \E c \in Conns : handleSet(c, <<"k1">>, <<"v1">>, "none", 0)
    \/ \E c \in Conns, n \in {1, 2} : handleRPush(c, "k1", n)
    \/ \E c \in Conns : handleLPush(c, "k1", 1)
    \/ \E c \in Conns : PushStore(c)
    \/ \E c \in Conns : notifyBlockedClients(c)
    \/ \E c \in Conns : NotifyPop(c)
    \/ \E c \in Conns : PushReply(c)
    \/ \E c \in Conns, a \in {<<"none", 0>>, <<"int", 2>>} :
          handleLPop(c, <<"k1">>, a[1], a[2])
    \/ \E c \in Conns : LPopStore(c)
    \/ \E c \in Conns : handleBLPop(c, <<"k1">>, "int", 0)
    \/ \E c \in Conns : BLPopStore(c)
    \/ \E c \in Conns : blockClient(c)
    \/ \E r \in 1..Len(recs) : DeferredRemove(r)

SpecStore == InitWith(MaxStoreCmds, FALSE) /\ [][NextStore]_vars

\* ------------------------------------------------------------------ ranges of a list

\* One client builds the list at k1 with RPUSH, the other reads ranges of it
\* with LRANGE, for every start and stop from -MaxIndex to MaxIndex; one
\* command at a time.
NextRange ==
    \/ \E n \in 1..MaxPush : handleRPush("c1", "k1", n)
    \/ PushStore("c1")
    \/ notifyBlockedClients("c1")
    \/ PushReply("c1")
    \/ \E start \in -MaxIndex..MaxIndex, stop \in -MaxIndex..MaxIndex :
          handleLRange("c2", <<"k1">>, "int", start, stop)

SpecRange == InitWith(MaxRangeCmds, TRUE) /\ [][NextRange]_vars

\* ------------------------------------------------------------------ BLPOP over several keys

\* RPUSH and SET on either key and BLPOP, without a timeout, over one key or
\* both in either order; one command at a time.
NextScan ==
    \/ \E c \in Conns, k \in Keys : handleSet(c, <<k>>, <<"v1">>, "none", 0)
    \/ \E c \in Conns, k \in Keys, n \in 1..MaxPush : handleRPush(c, k, n)
    \/ \E c \in Conns : PushStore(c)
    \/ \E c \in Conns : notifyBlockedClients(c)
    \/ \E c \in Conns : NotifyPop(c)
    \/ \E c \in Conns : PushReply(c)
    \/ \E c \in Conns, ks \in KeyLists \cup {<<"k2", "k1">>} : handleBLPop(c, ks, "int", 0)
    \/ \E c \in Conns : BLPopScan(c)
    \/ \E c \in Conns : BLPopStore(c)
    \/ \E c \in Conns : blockClient(c)
    \/ \E r \in 1..Len(recs) : DeferredRemove(r)

SpecScan == InitWith(MaxScanCmds, TRUE) /\ [][NextScan]_vars

\* ------------------------------------------------------------------ streams

\* The entry ids sent: well-formed ones around 1-1, 0-0, and malformed ones.
StreamIDs == {<<0, 0>>, <<0, 1>>, <<1, 0>>, <<1, 1>>, <<2, 0>>, <<1>>, <<NaN, 0>>, <<1, NaN>>}

\* XADD on key k1 with every id of StreamIDs, with an odd number of
\* field-value arguments, and against the Scalar a SET put there.
NextStream ==
    \/ \E c \in Conns, id \in StreamIDs : handleXAdd(c, <<"k1">>, id, <<"f", "v1">>)
    \/ \E c \in Conns : handleXAdd(c, <<"k1">>, <<1, 0>>, <<"f">>)
    \/ \E c \in Conns : XAddStore(c)
    \/ \E c \in Conns : handleSet(c, <<"k1">>, <<"v1">>, "none", 0)

\* Workers that run concurrently.
SpecStream == InitWith(MaxStreamCmds, FALSE) /\ [][NextStream]_vars

\* One command at a time.
SpecStreamSerial == InitWith(MaxStreamCmds, TRUE) /\ [][NextStream]_vars

\* ------------------------------------------------------------------ requests that are refused

\* Every command with too few arguments or an argument that does not parse,
\* names without a handler and the empty request, next to requests that are
\* served, on key k1.
NextErrors ==
    \/ \E c \in Conns : handlePing(c)
    \/ \E c \in Conns, vs \in {<<>>, <<"v1">>} : handleEcho(c, vs)
    \/ \E c \in Conns, name \in {"foo", "Bar"} : UnknownCommand(c, name)
    \/ \E c \in Conns : EmptyCommand(c)
    \/ \E c \in Conns, a \in {<<"none", 0>>, <<"bad", 0>>} :
          handleSet(c, <<"k1">>, <<"v1">>, a[1], a[2])
    \/ \E c \in Conns : handleSet(c, <<"k1">>, <<>>, "none", 0)
    \/ \E c \in Conns, ks \in {<<>>, <<"k1">>} : handleGet(c, ks)
    \/ \E c \in Conns, ks \in {<<>>, <<"k1">>} : handleType(c, ks)
    \/ \E c \in Conns, n \in {0, 1} : handleRPush(c, "k1", n)
    \/ \E c \in Conns : handleLPush(c, "k1", 0)
    \/ \E c \in Conns : PushStore(c)
    \/ \E c \in Conns : notifyBlockedClients(c)
    \/ \E c \in Conns : PushReply(c)
    \/ \E c \in Conns, a \in {<<"none", 0>>, <<"bad", 0>>, <<"int", -1>>} :
          handleLPop(c, <<"k1">>, a[1], a[2])
    \/ \E c \in Conns : handleLPop(c, <<>>, "none", 0)
    \/ \E c \in Conns : LPopStore(c)
    \/ \E c \in Conns, ks \in {<<>>, <<"k1">>} : handleLLen(c, ks)
    \/ \E c \in Conns, a \in {<<"none", 0, 0>>, <<"bad", 0, 0>>, <<"int", 0, -1>>} :
          handleLRange(c, <<"k1">>, a[1], a[2], a[3])
    \/ \E c \in Conns, a \in {<<"none", 0>>, <<"bad", 0>>} :
          handleBLPop(c, <<"k1">>, a[1], a[2])
    \/ \E c \in Conns : handleBLPop(c, <<>>, "int", 0)
    \/ \E c \in Conns, fv \in {<<>>, <<"f">>, <<"f", "v1", "f">>} :
          handleXAdd(c, <<"k1">>, <<1, 0>>, fv)

SpecErrors == InitWith(MaxErrorCmds, FALSE) /\ [][NextErrors]_vars

\* ------------------------------------------------------------------ waiters whose connection closes

\* BLPOP and RPUSH on key k1, with connections that are closed between two
\* requests.
NextClose ==
    \/ \E c \in Conns : handleRPush(c, "k1", 1)
    \/ \E c \in Conns : PushStore(c)
    \/ \E c \in Conns : notifyBlockedClients(c)
    \/ \E c \in Conns : NotifyPop(c)
    \/ \E c \in Conns : PushReply(c)
    \/ \E c \in Conns, timeout \in {0, 1} : handleBLPop(c, <<"k1">>, "int", timeout)
    \/ \E c \in Conns : BLPopStore(c)
    \/ \E c \in Conns : blockClient(c)
    \/ \E r \in 1..Len(recs) : TimerFire(r)
    \/ \E r \in 1..Len(recs) : DeferredRemove(r)
    \/ \E c \in Conns : CloseConnection(c)

SpecClose == InitWith(MaxCloseCmds, FALSE) /\ [][NextClose]_vars

\* ------------------------------------------------------------------ the length of a list

\* RPUSH, LPOP and LLEN on key k1, from both connections at once.
NextLen ==
    \/ \E c \in Conns, n \in 1..MaxPush : handleRPush(c, "k1", n)
    \/ \E c \in Conns : PushStore(c)
    \/ \E c \in Conns : notifyBlockedClients(c)
    \/ \E c \in Conns : PushReply(c)
    \/ \E c \in Conns : handleLPop(c, <<"k1">>, "none", 0)
    \/ \E c \in Conns : LPopStore(c)
    \/ \E c \in Conns, k \in Keys : handleLLen(c, <<k>>)

SpecLen == InitWith(MaxLenCmds, FALSE) /\ [][NextLen]_vars

\* ------------------------------------------------------------------ the variants of a key

\* Key k1 is given a Scalar, with or without an expiration, a List or a
\* Stream, is overwritten by SET and asked for its type, while the clock
\* advances.
NextVariants ==
    \/ \E c \in Conns, v \in Vals, a \in {<<"none", 0>>, <<"int", 1>>} :
          handleSet(c, <<"k1">>, <<v>>, a[1], a[2])
    \/ \E c \in Conns : handleRPush(c, "k1", 1)
    \/ \E c \in Conns : PushStore(c)
    \/ \E c \in Conns : notifyBlockedClients(c)
    \/ \E c \in Conns : PushReply(c)
    \/ \E c \in Conns : handleXAdd(c, <<"k1">>, <<1, 0>>, <<"f", "v1">>)
    \/ \E c \in Conns : XAddStore(c)
    \/ \E c \in Conns : handleType(c, <<"k1">>)
    \/ \E c \in Conns : TypeDelete(c)
    \/ Tick

SpecVariants == InitWith(MaxVariantCmds, FALSE) /\ [][NextVariants]_vars

\* ------------------------------------------------------------------ pushes and pops in turn

\* RPUSH and LPOP, with and without a count, on key k1, one command at a time.
NextPop ==
    \/ \E c \in Conns, n \in 1..MaxPush : handleRPush(c, "k1", n)
    \/ \E c \in Conns : PushStore(c)
    \/ \E c \in Conns : notifyBlockedClients(c)
    \/ \E c \in Conns : PushReply(c)
    \/ \E c \in Conns, a \in {<<"none", 0>>, <<"int", 0>>, <<"int", 1>>, <<"int", 3>>} :
          handleLPop(c, <<"k1">>, a[1], a[2])
    \/ \E c \in Conns : LPopStore(c)

SpecPop == InitWith(MaxPopCmds, TRUE) /\ [][NextPop]_vars

\* ------------------------------------------------------------------ scalars and the clock

\* SET, with and without PX, GET and TYPE on both keys while the clock
\* advances.
NextScalar ==
    \/ \E c \in Conns, ks \in OneKey, vs \in {<<v>> : v \in Vals},
          a \in {<<"none", 0>>, <<"int", 1>>} : handleSet(c, ks, vs, a[1], a[2])
    \/ \E c \in Conns, ks \in OneKey : handleGet(c, ks)
    \/ \E c \in Conns : GetDelete(c)
    \/ \E c \in Conns, ks \in OneKey : handleType(c, ks)
    \/ \E c \in Conns : TypeDelete(c)
    \/ Tick

SpecScalar == InitWith(MaxScalarCmds, FALSE) /\ [][NextScalar]_vars

\* SET k1 v1 PX 1 while the clock advances, and RPUSH, LLEN and LRANGE on k1,
\* which holds a Scalar, alive or dead, or nothing by then.
NextExpiry ==
    \/ \E c \in Conns : handleSet(c, <<"k1">>, <<"v1">>, "int", 1)
    \/ Tick
    \/ \E c \in Conns : handleRPush(c, "k1", 1)
    \/ \E c \in Conns : PushStore(c)
    \/ \E c \in Conns : notifyBlockedClients(c)
    \/ \E c \in Conns : PushReply(c)
    \/ \E c \in Conns : handleLLen(c, <<"k1">>)
    \/ \E c \in Conns : handleLRange(c, <<"k1">>, "int", 0, -1)

SpecExpiry == InitWith(MaxScalarCmds, FALSE) /\ [][NextExpiry]_vars

\* ------------------------------------------------------------------ blocked-client records

Recs == 1..Len(recs)

\* The record was matched by a producer: its done channel is closed.
Satisfied(r) == recs[r].done

\* The record's timer fired: the null reply was written.
TimedOut(r) == gor[r] \in {"timeout", "exit_timeout"}

\* The record waits: neither matched nor timed out.
Waiting(r) == ~recs[r].done /\ gor[r] = "select"

\* The record is in the queue of its key.
Queued(r) == r \in Range(blocked[recs[r].listKey])

\* The replies written so far, as (connection, position).
Written == UNION {{<<d, i>> : i \in 1..Len(out[d])} : d \in Conns}

\* -------------------------------------------------------------- properties

\* C1: when a push on key k that found k missing or empty has run its wake
\* routine, a waiter registered on k has been served by it: the push did not
\* pass by a waiter that cannot time out, the client it woke is the
\* longest-waiting one, its done channel is closed, its connection holds the
\* reply [k, x] with x the first value of the RPUSH, and x is no longer in the
\* list at k.
C1_PushWakesWaiter ==
    \A c \in Conns :
        (pc[c] = "push_reply" /\ cmd[c].name = "RPUSH"
            /\ Len(loc[c].list) = Len(cmd[c].vals)) =>
        LET k == cmd[c].keys[1]
            w == loc[c].client
            x == cmd[c].vals[1]
        IN /\ (\E r \in Recs : recs[r].listKey = k /\ recs[r].timeout = 0 /\ Waiting(r))
                  => w # 0
           /\ w # 0 =>
                /\ Satisfied(w)
                /\ \A r \in Recs : (recs[r].listKey = k /\ Waiting(r)) => r > w
                /\ \E i \in 1..Len(out[recs[w].conn]) :
                      out[recs[w].conn][i] = [kind |-> "array", s |-> "", n |-> 0,
                                              a |-> <<k, x>>]
                /\ x \notin Range(DB[k].els)

\* C1's case: an RPUSH on a missing key has just served a waiter that was
\* registered with timeout 0.
C1_Witness ==
    \E c \in Conns :
        /\ pc[c] = "push_reply" /\ cmd[c].name = "RPUSH"
        /\ Len(loc[c].list) = Len(cmd[c].vals)
        /\ loc[c].client # 0
        /\ recs[loc[c].client].timeout = 0
        /\ recs[loc[c].client].conn # c

\* C2: of two waiters registered on the same key, the later one is never
\* satisfied while the earlier one still waits.
C2_WakeInFifoOrder ==
    \A r1 \in Recs, r2 \in Recs :
        (r1 < r2 /\ recs[r1].listKey = recs[r2].listKey /\ Satisfied(r2)) => ~Waiting(r1)

\* C2's case: two waiters on one key, the first one satisfied by a push and
\* the second one still waiting.
C2_Witness ==
    \E r1 \in Recs, r2 \in Recs :
        /\ r1 < r2 /\ recs[r1].listKey = recs[r2].listKey
        /\ Satisfied(r1) /\ Waiting(r2)

\* The [k, element] replies that hand out an element of the list `elements`.
Handed(k, elements) ==
    {p \in Written : /\ out[p[1]][p[2]].kind = "array"
                     /\ Len(out[p[1]][p[2]].a) = 2
                     /\ out[p[1]][p[2]].a[1] = k
                     /\ out[p[1]][p[2]].a[2] \in Range(elements)}

\* C6: when a push has run its wake routine, either it woke nobody and the
\* list holds everything it stored, or it woke one client: then exactly one
\* reply hands out an element of the list, that element is the head of the
\* list as pushed, and all the other elements are still in the list, in order.
C6_OneWakePerPush ==
    \A c \in Conns :
        pc[c] = "push_reply" =>
        LET k == cmd[c].keys[1]
            w == loc[c].client
            pushed == loc[c].list
        IN IF w = 0
           THEN /\ DB[k].t = "list" /\ DB[k].els = pushed
                /\ Handed(k, pushed) = {}
           ELSE /\ IF Len(pushed) = 1 THEN DB[k].t = "none"
                   ELSE DB[k].t = "list" /\ DB[k].els = Tail(pushed)
                /\ Cardinality(Handed(k, pushed)) = 1
                /\ \A p \in Handed(k, pushed) :
                      /\ out[p[1]][p[2]].a[2] = pushed[1]
                      /\ p[1] = recs[w].conn

\* C6's case: a push of several values has woken one client while another
\* client was queued on the same key and still waits.
C6_Witness ==
    \E c \in Conns :
        /\ pc[c] = "push_reply"
        /\ Len(cmd[c].vals) > 1
        /\ loc[c].client # 0
        /\ \E r \in Recs : /\ r # loc[c].client
                           /\ recs[r].listKey = cmd[c].keys[1]
                           /\ Waiting(r) /\ Queued(r)

\* C3: no record gets both replies: one whose null reply was written by its
\* timer is never matched by a producer, which would pop an element for it and
\* write [key, element] on its connection as well.
C3_OneReplyPerRecord ==
    \A r \in Recs : ~(TimedOut(r) /\ Satisfied(r))

\* C4: when RPUSH and LPUSH are the only commands sent and all of them have
\* replied, the list holds every value pushed: its length is the number of
\* values the pushes were given.
C4_NoLostPush ==
    (issued \subseteq {"RPUSH", "LPUSH"} /\ AllIdle) =>
        Len(DB["k1"].els) = nextId - 1

\* The elements a reply returns as popped: the bulk string of an LPOP, the
\* array of an LPOP with a count, the [key, element] of a BLPOP.
Popped(reply) ==
    IF reply.kind = "bulk" THEN {reply.s}
    ELSE IF reply.kind = "array" THEN Range(reply.a) \ Keys
    ELSE {}

\* C5: the element a wake routine has just handed to the client it woke is
\* returned by that one reply only, and by no other pop.
C5_WokenElementPoppedOnce ==
    \A c \in Conns :
        (pc[c] = "push_reply" /\ loc[c].client # 0) =>
            \A p \in Written, q \in Written :
                (/\ loc[c].wlist[1] \in Popped(out[p[1]][p[2]])
                 /\ loc[c].wlist[1] \in Popped(out[q[1]][q[2]])) => p = q

\* C7: once the null reply of a timed-out BLPOP is written, its record is no
\* longer in the queue of its key, where a later push would find it.
C7_TimedOutLeftQueue ==
    \A r \in Recs : TimedOut(r) => ~Queued(r)

\* C8: while a record of a connection waits, the worker of that connection
\* is held in the BLPOP that registered it: it runs no handler, the last
\* request it read is that BLPOP, and it has registered no record since.
C8_WaiterSuspended ==
    \A r \in Recs :
        Waiting(r) =>
            /\ pc[recs[r].conn] = "idle"
            /\ cmd[recs[r].conn].name = "BLPOP"
            /\ \A r2 \in Recs : r2 > r => recs[r2].conn # recs[r].conn

\* The request passes its handler's checks of arity and of numeric arguments.
WellFormed(request) ==
    CASE request.name \in {"RPUSH", "LPUSH"} -> Len(request.vals) >= 1
      [] request.name = "LPOP" ->
            /\ Len(request.keys) = 1
            /\ request.opt # "bad" /\ ~(request.opt = "int" /\ request.num < 0)
      [] request.name = "LRANGE" -> Len(request.keys) = 1 /\ request.opt = "int"
      [] request.name = "LLEN" -> Len(request.keys) = 1
      [] request.name = "BLPOP" -> Len(request.keys) >= 1 /\ request.opt = "int"
      [] request.name = "XADD" ->
            Len(request.keys) = 1 /\ Len(request.vals) >= 1 /\ Len(request.vals) % 2 = 0
      [] OTHER -> FALSE

\* The command needs a List, or a Stream, and the key holds another variant.
AgainstOtherType(request, value) ==
    \/ /\ request.name \in {"RPUSH", "LPUSH", "LPOP", "LRANGE", "LLEN", "BLPOP"}
       /\ value.t \in {"string", "stream"}
    \/ /\ request.name = "XADD"
       /\ value.t \in {"string", "list"}

\* The worker of c reads a request in this step.
Reads(c) == nreq'[c] # nreq[c]

\* C9: a well-formed RPUSH, LPUSH, LPOP, LRANGE, LLEN or BLPOP on a key that
\* holds a Scalar or a Stream, and a well-formed XADD on a key that holds a
\* Scalar or a List, is answered with the type error at once, and neither the
\* store nor the waiter registry changes.
C9_WrongTypeNoMutation ==
    [][\A c \in Conns :
          (/\ Reads(c)
           /\ WellFormed(cmd'[c])
           /\ AgainstOtherType(cmd'[c], DB[cmd'[c].keys[1]])) =>
              /\ out'[c] = Append(out[c],
                     [kind |-> "error",
                      s |-> "WRONGTYPE Operation against a key holding the wrong kind of value",
                      n |-> 0, a |-> <<>>])
              /\ pc'[c] = "idle"
              /\ DB' = DB
              /\ blocked' = blocked /\ recs' = recs]_vars

\* C9's case: RPUSH k1 x has been answered with the type error and k1 still
\* holds the Scalar v1 that SET k1 v1 stored.
C9_Witness ==
    \E c \in Conns :
        /\ pc[c] = "idle" /\ cmd[c].name = "RPUSH"
        /\ out[c] # <<>> /\ out[c][Len(out[c])] = WrongType
        /\ DB["k1"].t = "string" /\ DB["k1"].v = "v1"

\* C10: GET on a key that holds a List or a Stream is answered with the type
\* error, the store is unchanged and the process goes on serving.
C10_GetWrongType ==
    [][\A c \in Conns :
          (/\ Reads(c)
           /\ cmd'[c].name = "GET" /\ Len(cmd'[c].keys) = 1
           /\ DB[cmd'[c].keys[1]].t \in {"list", "stream"}) =>
              /\ out'[c] = Append(out[c], WrongType)
              /\ DB' = DB
              /\ pc'[c] = "idle"
              /\ ~crashed']_vars

\* The last reply written to c.
LastReply(c) == out[c][Len(out[c])]

\* The key a request names first.
KeyOf(request) == request.keys[1]

\* C11: SET k v stores the Scalar v at k (without an expiration when no PX is
\* given), and GET k on a key whose Scalar was not overwritten since and has
\* not reached its expiration replies that v and leaves the store alone: SET
\* k v followed by GET k returns v.
C11_SetThenGet ==
    [][\A c \in Conns :
          /\ (Reads(c) /\ cmd'[c].name = "SET" /\ cmd'[c].opt # "bad") =>
                /\ DB'[KeyOf(cmd'[c])].t = "string"
                /\ DB'[KeyOf(cmd'[c])].v = cmd'[c].vals[1]
                /\ cmd'[c].opt = "none" => ~DB'[KeyOf(cmd'[c])].hasExp
                /\ \A k \in Keys \ {KeyOf(cmd'[c])} : DB'[k] = DB[k]
          /\ (/\ Reads(c) /\ cmd'[c].name = "GET"
              /\ DB[KeyOf(cmd'[c])].t = "string"
              /\ \/ ~DB[KeyOf(cmd'[c])].hasExp
                 \/ now < DB[KeyOf(cmd'[c])].exp) =>
                /\ out'[c] = Append(out[c], [kind |-> "bulk", s |-> DB[KeyOf(cmd'[c])].v,
                                             n |-> 0, a |-> <<>>])
                /\ DB' = DB
                /\ pc'[c] = "idle"]_vars

\* C11's case: SET k1 v1 from one connection, then GET k1 from the other,
\* which was answered v1.
C11_Witness ==
    \E c \in Conns, d \in Conns :
        /\ c # d /\ nreq[c] = 1 /\ nreq[d] = 1
        /\ cmd[d].name = "SET" /\ cmd[d].keys = <<"k1">> /\ cmd[d].vals = <<"v1">>
        /\ cmd[d].opt = "none"
        /\ cmd[c].name = "GET" /\ cmd[c].keys = <<"k1">>
        /\ out[c] = <<BulkString("v1")>>

\* GET and TYPE on a Scalar with an expiration: before the instant it is dead
\* they answer the value and "string"; from then on they take the branch that
\* deletes the key, and that branch replies null, "none", and removes the key.
\* atInstant: the Scalar is dead at its expiration instant already.
ExpiryContract(c, atInstant) ==
    LET k == KeyOf(cmd'[c])
        dead == IF atInstant THEN now >= DB[k].exp ELSE now > DB[k].exp
    IN /\ (/\ Reads(c) /\ cmd'[c].name = "GET"
           /\ DB[k].t = "string" /\ DB[k].hasExp) =>
              IF dead THEN pc'[c] = "get_delete" /\ out'[c] = out[c]
              ELSE /\ out'[c] = Append(out[c], [kind |-> "bulk", s |-> DB[k].v,
                                                n |-> 0, a |-> <<>>])
                   /\ DB' = DB
       /\ (/\ Reads(c) /\ cmd'[c].name = "TYPE"
           /\ DB[k].t = "string" /\ DB[k].hasExp) =>
              IF dead THEN pc'[c] = "type_delete" /\ out'[c] = out[c]
              ELSE /\ out'[c] = Append(out[c], [kind |-> "simple", s |-> "string",
                                                n |-> 0, a |-> <<>>])
                   /\ DB' = DB
       /\ (pc[c] = "get_delete" /\ pc'[c] # pc[c]) =>
              /\ out'[c] = Append(out[c], [kind |-> "null", s |-> "", n |-> 0, a |-> <<>>])
              /\ DB'[KeyOf(cmd[c])].t = "none"
       /\ (pc[c] = "type_delete" /\ pc'[c] # pc[c]) =>
              /\ out'[c] = Append(out[c], [kind |-> "simple", s |-> "none",
                                           n |-> 0, a |-> <<>>])
              /\ DB'[KeyOf(cmd[c])].t = "none"

\* C12 as stated: a Scalar set with PX ms is answered by GET and TYPE until
\* the clock reaches set-time + ms, and from that very instant on GET replies
\* null, TYPE replies "none", and the key is deleted.
C12_DeadAtInstant == [][\A c \in Conns : ExpiryContract(c, TRUE)]_vars

\* C12, amended: the same, but the Scalar is dead only once the clock is
\* strictly past set-time + ms; at that instant itself GET still answers v.
C12_DeadPastInstant == [][\A c \in Conns : ExpiryContract(c, FALSE)]_vars

\* C12's case: SET k1 v PX 1 from one connection, then GET k1 from the other
\* after the clock passed the instant: the reply was null and k1 is gone.
C12_Witness ==
    \E c \in Conns, d \in Conns :
        /\ c # d /\ nreq[c] = 1 /\ nreq[d] = 1
        /\ cmd[d].name = "SET" /\ cmd[d].keys = <<"k1">> /\ cmd[d].opt = "int"
        /\ cmd[c].name = "GET" /\ cmd[c].keys = <<"k1">>
        /\ pc[c] = "idle" /\ out[c] = <<NullBulkString>>
        /\ DB["k1"].t = "none"

\* C13: RPUSH, LLEN and LRANGE on a Scalar whose expiration instant has
\* passed act as on a missing key: RPUSH k x goes on to store the list [x],
\* LLEN replies 0 and LRANGE the empty array.
C13_DeadScalarIsAbsent ==
    [][\A c \in Conns :
          (/\ Reads(c)
           /\ DB[KeyOf(cmd'[c])].t = "string"
           /\ DB[KeyOf(cmd'[c])].hasExp /\ now > DB[KeyOf(cmd'[c])].exp) =>
              /\ cmd'[c].name = "RPUSH" =>
                    pc'[c] = "push_store" /\ loc'[c].list = cmd'[c].vals
              /\ cmd'[c].name = "LLEN" =>
                    out'[c] = Append(out[c], [kind |-> "int", s |-> "", n |-> 0, a |-> <<>>])
              /\ cmd'[c].name = "LRANGE" =>
                    out'[c] = Append(out[c], [kind |-> "array", s |-> "", n |-> 0,
                                              a |-> <<>>])]_vars

\* The sequence s from its last element to its first.
Reverse(s) == [i \in 1..Len(s) |-> s[Len(s) + 1 - i]]

\* The DB.Store of a push by c, when no other command runs: the list stored
\* is the list that was there with the arguments of RPUSH after its tail, or
\* with the arguments of LPUSH before its head, these in the order given
\* (sameOrder) or in the reverse of it.
PushContract(c, sameOrder) ==
    (pc[c] = "push_store" /\ pc'[c] # pc[c]) =>
        LET k == KeyOf(cmd[c])
            args == cmd[c].vals
        IN /\ DB'[k].t = "list"
           /\ DB'[k].els = IF cmd[c].name = "RPUSH" THEN DB[k].els \o args
                           ELSE IF sameOrder THEN args \o DB[k].els
                           ELSE Reverse(args) \o DB[k].els
           /\ \A k2 \in Keys \ {k} : DB'[k2] = DB[k2]

\* C14 as stated: every RPUSH puts its arguments after the tail in the order
\* given, and every LPUSH puts its arguments before the head in the order
\* given (LPUSH k a b on [x] gives [a, b, x]).
C14_LPushKeepsOrder == [][\A c \in Conns : PushContract(c, TRUE)]_vars

\* C14, amended: every RPUSH puts its arguments after the tail in the order
\* given, and every LPUSH puts its arguments before the head one after the
\* other, so that they end up in the reverse of the order given (LPUSH k a b
\* on [x] gives [b, a, x]).
C14_LPushReversesOrder == [][\A c \in Conns : PushContract(c, FALSE)]_vars

\* C14's case: an LPUSH of two elements on a list of one has ended.
C14_Witness ==
    \E c \in Conns :
        /\ pc[c] = "idle" /\ cmd[c].name = "LPUSH" /\ cmd[c].vals = <<"e2", "e3">>
        /\ DB["k1"].t = "list" /\ DB["k1"].els = <<"e3", "e2", "e1">>

\* Every element a pop reply has returned so far.
PoppedAll == UNION {Popped(out[p[1]][p[2]]) : p \in Written}

\* Every element a push was given so far.
PushedAll == {Elem(i) : i \in 1..(nextId - 1)}

\* The place of element e in the order in which elements were given to pushes.
ElemIndex(e) == CHOOSE i \in 1..nextId : Elem(i) = e

\* The elements the replies of c have returned, in the order of the replies.
PopsOf(c) ==
    LET bulks == SelectSeq(out[c], LAMBDA r : r.kind = "bulk")
    IN [i \in 1..Len(bulks) |-> bulks[i].s]

Increasing(s) ==
    \A i \in 1..Len(s), j \in 1..Len(s) : i < j => ElemIndex(s[i]) < ElemIndex(s[j])

C16_LPopContract ==
    [][\A c \in Conns :
          /\ (/\ Reads(c) /\ cmd'[c].name = "LPOP"
              /\ cmd'[c].opt \in {"none", "int"} /\ cmd'[c].num >= 0) =>
                /\ DB' = DB
                /\ IF DB[KeyOf(cmd'[c])].t = "none"
                   THEN out'[c] = Append(out[c],
                            IF cmd'[c].opt = "int"
                            THEN [kind |-> "array", s |-> "", n |-> 0, a |-> <<>>]
                            ELSE [kind |-> "null", s |-> "", n |-> 0, a |-> <<>>])
                   ELSE out'[c] = out[c] /\ pc'[c] = "lpop_store"
          /\ (pc[c] = "lpop_store" /\ pc'[c] # pc[c]) =>
                LET k == KeyOf(cmd[c])
                    els == DB[k].els
                    m == IF cmd[c].opt = "none" THEN 1
                         ELSE IF cmd[c].num < Len(els) THEN cmd[c].num ELSE Len(els)
                IN /\ out'[c] = Append(out[c],
                          IF cmd[c].opt = "none"
                          THEN [kind |-> "bulk", s |-> els[1], n |-> 0, a |-> <<>>]
                          ELSE [kind |-> "array", s |-> "", n |-> 0,
                                a |-> [i \in 1..m |-> els[i]]])
                   /\ IF m = Len(els) THEN DB'[k].t = "none"
                      ELSE /\ DB'[k].t = "list"
                           /\ DB'[k].els = [i \in 1..(Len(els) - m) |-> els[m + i]]
                   /\ \A k2 \in Keys \ {k} : DB'[k2] = DB[k2]]_vars

\* C16's case: LPOP k1 3 on a list of two elements returned both and the key
\* is gone.
C16_Witness ==
    \E c \in Conns :
        /\ pc[c] = "idle" /\ cmd[c].name = "LPOP" /\ cmd[c].opt = "int" /\ cmd[c].num = 3
        /\ out[c] # <<>> /\ LastReply(c) = ArrayReply(<<"e1", "e2">>)
        /\ DB["k1"].t = "none"

\* C17: no key of the store holds a List without elements.
C17_NoEmptyList == \A k \in Keys : DB[k].t = "list" => DB[k].els # <<>>

\* C17's case: a pop took the last element of the list at k1 and the key is
\* gone from the store.
C17_Witness ==
    \E c \in Conns :
        /\ pc[c] = "idle" /\ cmd[c].keys = <<"k1">>
        /\ cmd[c].name \in {"LPOP", "BLPOP"}
        /\ out[c] # <<>> /\ Popped(LastReply(c)) # {}
        /\ DB["k1"].t = "none"

\* C18: LRANGE k start stop on a list of n elements replies the elements at
\* the positions i with max(s, 0) <= i <= min(t, n - 1), in list order, s and
\* t being start and stop with a negative index m read as n + m; the empty
\* array when there is no such position or the key is missing.
C18_LRangeSlice ==
    [][\A c \in Conns :
          (/\ Reads(c) /\ cmd'[c].name = "LRANGE" /\ cmd'[c].opt = "int"
           /\ DB[KeyOf(cmd'[c])].t \in {"none", "list"}) =>
              LET els == DB[KeyOf(cmd'[c])].els
                  n == Len(els)
                  s == IF cmd'[c].num < 0 THEN n + cmd'[c].num ELSE cmd'[c].num
                  t == IF cmd'[c].more[1] < 0 THEN n + cmd'[c].more[1] ELSE cmd'[c].more[1]
                  lo == IF s > 0 THEN s ELSE 0
                  hi == IF t < n - 1 THEN t ELSE n - 1
              IN out'[c] = Append(out[c],
                     [kind |-> "array", s |-> "", n |-> 0,
                      a |-> IF lo > hi THEN <<>>
                            ELSE [i \in 1..(hi - lo + 1) |-> els[lo + i]]])]_vars

\* C19: LRANGE changes neither the store nor the waiter registry, and an
\* LRANGE that a connection sends again while the key holds what the first
\* one found is answered as the first one was.
C19_LRangeReadOnly ==
    [][\A c \in Conns :
          (Reads(c) /\ cmd'[c].name = "LRANGE") =>
              /\ DB' = DB /\ blocked' = blocked /\ recs' = recs
              /\ (/\ cmd[c] = cmd'[c]
                  /\ seen[c] = DB[KeyOf(cmd'[c])]) =>
                     out'[c] = Append(out[c], out[c][Len(out[c])])]_vars

\* C19's case: the same LRANGE was sent twice on a list and answered twice
\* with the same elements.
C19_Witness ==
    /\ nreq["c2"] = 2 /\ Len(out["c2"]) = 2
    /\ cmd["c2"].name = "LRANGE"
    /\ out["c2"][1] = out["c2"][2]
    /\ out["c2"][1].kind = "array" /\ out["c2"][1].a # <<>>

\* The key holds a List with an element.
Ready(k) == DB[k].t = "list" /\ DB[k].els # <<>>

\* C20: a BLPOP none of whose keys holds a value of another type, and one of
\* whose keys holds a non-empty List, does not go on to block; it pops at the
\* first such key in argument order: it replies [key, head], leaves the rest
\* of that list at the key (the key is deleted when nothing is left), and
\* changes no other key, no waiter queue and no record.
C20_BLPopFirstReady ==
    [][\A c \in Conns :
          /\ (/\ cmd'[c].name = "BLPOP" /\ pc'[c] = "block" /\ pc[c] # "block"
              /\ \A i \in 1..Len(cmd'[c].keys) : DB[cmd'[c].keys[i]].t \in {"none", "list"}) =>
                \A i \in 1..Len(cmd'[c].keys) : ~Ready(cmd'[c].keys[i])
          /\ (pc[c] = "blpop_store" /\ pc'[c] # pc[c]) =>
                LET ks == cmd[c].keys
                    first == CHOOSE i \in 1..Len(ks) :
                                 /\ Ready(ks[i])
                                 /\ \A j \in 1..(i - 1) : ~Ready(ks[j])
                    k == ks[first]
                IN /\ \E i \in 1..Len(ks) : Ready(ks[i])
                   /\ out'[c] = Append(out[c], [kind |-> "array", s |-> "", n |-> 0,
                                                a |-> <<k, DB[k].els[1]>>])
                   /\ IF Len(DB[k].els) = 1 THEN DB'[k].t = "none"
                      ELSE DB'[k].t = "list" /\ DB'[k].els = Tail(DB[k].els)
                   /\ \A k2 \in Keys \ {k} : DB'[k2] = DB[k2]
                   /\ blocked' = blocked /\ recs' = recs
                   /\ pc'[c] = "idle"]_vars

\* C20's case: BLPOP k1 k2 0 found k1 missing and popped the only element of
\* the list at k2.
C20_Witness ==
    \E c \in Conns :
        /\ pc[c] = "idle" /\ cmd[c].name = "BLPOP" /\ cmd[c].keys = <<"k1", "k2">>
        /\ out[c] # <<>> /\ LastReply(c).kind = "array" /\ LastReply(c).a[1] = "k2"
        /\ recs = <<>>
        /\ DB["k1"].t = "none" /\ DB["k2"].t = "none"

\* The id is two numbers.
WellFormedID(id) == Len(id) = 2 /\ id[1] # -1 /\ id[2] # -1

\* Id a comes before id b in (timestamp, sequence) order.
IDLess(a, b) == a[1] < b[1] \/ (a[1] = b[1] /\ a[2] < b[2])

\* XADD would take this request on the value at its key: the arguments are
\* pairs, the key holds a Stream or nothing, the id is two numbers, not 0-0,
\* and after the last id of the stream.
Acceptable(request, value) ==
    /\ Len(request.vals) >= 2 /\ Len(request.vals) % 2 = 0
    /\ value.t \in {"none", "stream"}
    /\ WellFormedID(request.more)
    /\ request.more # <<0, 0>>
    /\ value.ents # <<>> => IDLess(value.ents[Len(value.ents)].id, request.more)

\* C21: in every state the ids of each stream are strictly increasing and
\* none is 0-0, and XADD takes an id exactly when it is two numbers, is not
\* 0-0 and is greater than the last id of the stream it found; an id that is
\* not greater is refused with the id-ordering error.
C21_StreamIDsIncrease ==
    /\ [](\A k \in Keys :
            LET ents == DB[k].ents IN
            /\ \A i \in 1..Len(ents) : WellFormedID(ents[i].id) /\ ents[i].id # <<0, 0>>
            /\ \A i \in 1..Len(ents), j \in 1..Len(ents) :
                  i < j => IDLess(ents[i].id, ents[j].id))
    /\ [][\A c \in Conns :
            (Reads(c) /\ cmd'[c].name = "XADD") =>
                LET value == DB[KeyOf(cmd'[c])] IN
                /\ pc'[c] = "xadd_store" <=> Acceptable(cmd'[c], value)
                /\ (/\ Len(cmd'[c].vals) = 2 /\ value.t = "stream"
                    /\ WellFormedID(cmd'[c].more) /\ cmd'[c].more # <<0, 0>>
                    /\ ~IDLess(value.ents[Len(value.ents)].id, cmd'[c].more)) =>
                      out'[c] = Append(out[c], [kind |-> "error", n |-> 0, a |-> <<>>,
                          s |-> "The ID specified in XADD is equal or smaller than the target stream top item"])
                /\ (Len(cmd'[c].vals) = 2 /\ value.t \in {"none", "stream"}
                    /\ cmd'[c].more = <<0, 0>>) =>
                      out'[c] = Append(out[c], [kind |-> "error", n |-> 0, a |-> <<>>,
                          s |-> "The ID specified in XADD must be greater than 0-0"])]_vars

\* C21's case: the stream holds 1-0, 1-1, and an XADD of 1-0 or 1-1 after
\* them was refused.
C21_Witness ==
    \E c \in Conns :
        /\ DB["k1"].t = "stream" /\ Len(DB["k1"].ents) = 2
        /\ DB["k1"].ents[1].id = <<1, 0>> /\ DB["k1"].ents[2].id = <<1, 1>>
        /\ pc[c] = "idle" /\ cmd[c].name = "XADD" /\ cmd[c].more \in {<<1, 0>>, <<1, 1>>}
        /\ out[c] # <<>> /\ LastReply(c).kind = "error"

\* C22: an XADD that is refused replies an error and leaves the store as it
\* is; an XADD that is taken appends one entry, with its id and its fields,
\* after the entries of the stream, creates the stream when the key was
\* missing, and replies the id.
C22_XAddAllOrNothing ==
    [][\A c \in Conns :
          /\ (Reads(c) /\ cmd'[c].name = "XADD") =>
                /\ DB' = DB
                /\ IF Acceptable(cmd'[c], DB[KeyOf(cmd'[c])])
                   THEN pc'[c] = "xadd_store" /\ out'[c] = out[c]
                   ELSE /\ pc'[c] = "idle"
                        /\ Len(out'[c]) = Len(out[c]) + 1
                        /\ out'[c][Len(out'[c])].kind = "error"
          /\ (pc[c] = "xadd_store" /\ pc'[c] # pc[c]) =>
                LET k == KeyOf(cmd[c]) IN
                /\ DB'[k].t = "stream"
                /\ Len(DB'[k].ents) = Len(DB[k].ents) + 1
                /\ \A i \in 1..Len(DB[k].ents) : DB'[k].ents[i] = DB[k].ents[i]
                /\ DB'[k].ents[Len(DB'[k].ents)].id = cmd[c].more
                /\ DB'[k].ents[Len(DB'[k].ents)].data = [f \in {"f"} |-> "v1"]
                /\ \A k2 \in Keys \ {k} : DB'[k2] = DB[k2]
                /\ out'[c] = Append(out[c], [kind |-> "bulk", n |-> 0, a |-> <<>>,
                                             s |-> EntryIDString(cmd[c].more)])]_vars

\* C22's case: XADD k1 1-0 was taken, then an XADD on k1 was refused and the
\* stream still holds the one entry.
C22_Witness ==
    \E c \in Conns :
        /\ AllIdle /\ cmd[c].name = "XADD"
        /\ out[c] # <<>> /\ LastReply(c).kind = "error"
        /\ DB["k1"].t = "stream" /\ Len(DB["k1"].ents) = 1
        /\ DB["k1"].ents[1].id = <<1, 0>>

\* C23: a request whose name, in upper case, has no handler is answered
\* with the error "unknown command" that names it; the store, the waiter
\* queues and the records stay as they are, and the worker goes back to
\* reading the connection.
C23_UnknownCommand ==
    [][\A c \in Conns :
          (/\ Reads(c) /\ cmd'[c].name # ""
           /\ ToUpper(cmd'[c].name) \notin
                 {"PING", "ECHO", "SET", "GET", "TYPE", "RPUSH", "LRANGE", "LLEN",
                  "LPUSH", "LPOP", "BLPOP", "XADD"}) =>
              /\ out'[c] = Append(out[c],
                     [kind |-> "error", n |-> 0, a |-> <<>>,
                      s |-> "unknown command '" \o ToUpper(cmd'[c].name) \o "'"])
              /\ DB' = DB /\ blocked' = blocked /\ recs' = recs
              /\ pc'[c] = "idle" /\ ~crashed']_vars

\* C23's case: a connection sent foo and then PING, and got the error and
\* then PONG.
C23_Witness ==
    \E c \in Conns :
        /\ Len(out[c]) = 2
        /\ out[c][1].kind = "error" /\ out[c][1].s = "unknown command 'FOO'"
        /\ out[c][2] = SimpleString("PONG")

\* The request has too few arguments for its command, or an argument that
\* must be a number is none (for LPOP's count: is none or is negative).
Malformed(request) ==
    CASE request.name = "ECHO" -> Len(request.vals) < 1
      [] request.name = "SET" -> Len(request.keys) + Len(request.vals) < 2 \/ request.opt = "bad"
      [] request.name \in {"GET", "TYPE"} -> Len(request.keys) < 1
      [] request.name \in {"RPUSH", "LPUSH"} -> Len(request.vals) < 1
      [] request.name = "LPOP" ->
            \/ Len(request.keys) < 1 \/ request.opt = "bad"
            \/ (request.opt = "int" /\ request.num < 0)
      [] request.name = "LLEN" -> Len(request.keys) # 1
      [] request.name \in {"LRANGE", "BLPOP"} ->
            Len(request.keys) < 1 \/ request.opt \in {"none", "bad"}
      [] request.name = "XADD" ->
            Len(request.keys) < 1 \/ Len(request.vals) < 1 \/ Len(request.vals) % 2 # 0
      [] OTHER -> FALSE

\* C29: a request to a known command that is malformed is answered with an
\* error; the store, the waiter queues and the records stay as they are, and
\* the worker goes back to reading the connection.
C29_MalformedRefused ==
    [][\A c \in Conns :
          (Reads(c) /\ Malformed(cmd'[c])) =>
              /\ Len(out'[c]) = Len(out[c]) + 1
              /\ out'[c][Len(out'[c])].kind = "error"
              /\ \A i \in 1..Len(out[c]) : out'[c][i] = out[c][i]
              /\ DB' = DB /\ blocked' = blocked /\ recs' = recs
              /\ pc'[c] = "idle" /\ ~crashed']_vars

\* C29's case: k1 holds the list of an RPUSH, LPOP k1 with a count that is no
\* number was refused, and the list is as it was.
C29_Witness ==
    \E c \in Conns :
        /\ pc[c] = "idle" /\ cmd[c].name = "LPOP" /\ cmd[c].opt = "bad"
        /\ out[c] # <<>> /\ LastReply(c).kind = "error"
        /\ DB["k1"].t = "list" /\ DB["k1"].els = <<"e1">>

\* C24: SET k v puts the Scalar v at k whatever k held, a Scalar, a List, a
\* Stream or nothing, and replies OK; without PX the Scalar has no
\* expiration, whatever expiration the value before it had.
C24_SetOverwrites ==
    [][\A c \in Conns :
          (Reads(c) /\ cmd'[c].name = "SET" /\ cmd'[c].opt # "bad") =>
              LET k == KeyOf(cmd'[c]) IN
              /\ DB'[k].t = "string" /\ DB'[k].v = cmd'[c].vals[1]
              /\ DB'[k].els = <<>> /\ DB'[k].ents = <<>>
              /\ cmd'[c].opt = "none" => ~DB'[k].hasExp
              /\ out'[c] = Append(out[c], [kind |-> "simple", s |-> "OK", n |-> 0, a |-> <<>>])
              /\ pc'[c] = "idle"]_vars

\* C24's case: SET k1 v without PX came after the RPUSH that made k1 a List,
\* or after a SET with PX, and k1 holds the Scalar without expiration.
C24_Witness ==
    \E c \in Conns, d \in Conns :
        /\ c # d /\ nreq[c] = 1 /\ nreq[d] = 1
        /\ cmd[c].name = "SET" /\ cmd[c].opt = "none"
        /\ cmd[d].name = "RPUSH" /\ out[d] = <<IntegerReply(1)>>
        /\ DB["k1"].t = "string" /\ ~DB["k1"].hasExp

\* C25: TYPE k replies the name of the variant at k, "none" when k is
\* missing, and leaves the store as it is; on a Scalar whose expiration
\* instant is past it deletes k and replies "none".
C25_TypeNames ==
    [][\A c \in Conns :
          /\ (Reads(c) /\ cmd'[c].name = "TYPE") =>
                LET value == DB[KeyOf(cmd'[c])] IN
                /\ DB' = DB
                /\ IF value.t = "string" /\ value.hasExp /\ now > value.exp
                   THEN pc'[c] = "type_delete" /\ out'[c] = out[c]
                   ELSE /\ pc'[c] = "idle"
                        /\ out'[c] = Append(out[c],
                             [kind |-> "simple", n |-> 0, a |-> <<>>,
                              s |-> CASE value.t = "string" -> "string"
                                      [] value.t = "list" -> "list"
                                      [] value.t = "stream" -> "stream"
                                      [] OTHER -> "none"])
          /\ (pc[c] = "type_delete" /\ pc'[c] # pc[c]) =>
                /\ out'[c] = Append(out[c], [kind |-> "simple", s |-> "none",
                                             n |-> 0, a |-> <<>>])
                /\ DB'[KeyOf(cmd[c])].t = "none"
                /\ \A k2 \in Keys \ {KeyOf(cmd[c])} : DB'[k2] = DB[k2]]_vars

\* C25's case: TYPE k1 was answered "stream" on the Stream of an XADD.
C25_Witness ==
    \E c \in Conns :
        /\ pc[c] = "idle" /\ cmd[c].name = "TYPE"
        /\ out[c] # <<>> /\ LastReply(c) = SimpleString("stream")
        /\ DB["k1"].t = "stream"

\* C26: no reply is written to a connection while blockedClientsMutex is
\* held; the wake routine has released the mutex when it writes
\* [key, element] to the woken client.
C26_NoWriteUnderLock ==
    [][\A d \in Conns : out'[d] # out[d] => mutex = "free"]_vars

\* C27: a record whose connection was closed while it waited has left the
\* queue of its key: the wake routine of a later push never pops an element
\* for a client whose connection is closed.
C27_NoPopForClosedConnection ==
    [][\A c \in Conns :
          (pc[c] = "notify_pop" /\ pc'[c] # pc[c]) =>
              pc[recs[loc[c].client].conn] # "closed"]_vars

\* C28: the registration of a waiter, the removal of a waiter and the wake
\* routine of a producer exclude one another: at most one wake routine is
\* between Lock and Unlock, it is the holder of the mutex, and while it is
\* there the queues change by its own step only.
C28_QueueSectionsExclusive ==
    /\ [](\A c \in Conns, d \in Conns :
             (pc[c] = "notify_pop" /\ pc[d] = "notify_pop") => c = d)
    /\ [](\A c \in Conns : pc[c] = "notify_pop" <=> mutex = c)
    /\ [][(blocked' # blocked \/ Len(recs') # Len(recs)) =>
             \/ mutex = "free"
             \/ /\ mutex \in Conns
                /\ pc[mutex] = "notify_pop" /\ pc'[mutex] = "push_reply"
                /\ mutex' = "free"]_vars

\* C28's case: a producer's wake routine holds the mutex while another
\* connection stands before its registration.
C28_Witness ==
    \E c \in Conns, d \in Conns :
        /\ c # d /\ mutex = c /\ pc[c] = "notify_pop" /\ pc[d] = "block"
        /\ blocked["k1"] # <<>>

\* C30: with clients that send one command at a time, the store of an RPUSH
\* or LPUSH leaves a list at the key, longer than what the key held (nothing
\* when it was absent) by the number of values pushed, and the reply is that
\* length: the length the list has at the reply, plus one when the wake
\* routine handed an element to a waiter.
C30_PushRepliesLength ==
    [][\A c \in Conns :
          /\ (pc[c] = "push_store" /\ pc'[c] # pc[c]) =>
                LET k == KeyOf(cmd[c]) IN
                /\ DB'[k].t = "list"
                /\ Len(DB'[k].els) = Len(DB[k].els) + Len(cmd[c].vals)
          /\ (pc[c] = "push_reply" /\ pc'[c] # pc[c]) =>
                LET k == KeyOf(cmd[c]) IN
                out'[c] = Append(out[c],
                    [kind |-> "int", s |-> "", a |-> <<>>,
                     n |-> Len(DB[k].els) + (IF loc[c].client # 0 THEN 1 ELSE 0)])]_vars

\* C30's case: a push of two elements woke a waiter, replied 2 and left one
\* element in the list.
C30_Witness ==
    \E c \in Conns :
        /\ pc[c] = "idle" /\ cmd[c].name \in {"RPUSH", "LPUSH"}
        /\ Len(cmd[c].vals) = 2
        /\ out[c] # <<>> /\ LastReply(c) = IntegerReply(2)
        /\ Len(DB["k1"].els) = 1
        /\ \E r \in Recs : recs[r].done /\ recs[r].conn # c

\* C31: LLEN k replies the number of elements of the List that k holds, 0
\* when k is not in the store, and changes nothing in the store.
C31_LLenCounts ==
    [][\A c \in Conns :
          (Reads(c) /\ cmd'[c].name = "LLEN" /\ Len(cmd'[c].keys) = 1) =>
              LET value == DB[KeyOf(cmd'[c])] IN
              /\ DB' = DB
              /\ pc'[c] = "idle"
              /\ value.t \in {"none", "list"} =>
                    out'[c] = Append(out[c], [kind |-> "int", s |-> "", a |-> <<>>,
                                              n |-> IF value.t = "none" THEN 0
                                                    ELSE Len(value.els)])]_vars

\* C31's case: LLEN k1 was answered 2 on a list of two elements.
C31_Witness ==
    \E c \in Conns :
        /\ cmd[c].name = "LLEN" /\ pc[c] = "idle"
        /\ out[c] # <<>> /\ LastReply(c) = IntegerReply(2)
        /\ DB["k1"].t = "list" /\ Len(DB["k1"].els) = 2

\* What a handler makes of the value at its key when it runs alone, with no
\* client waiting: the value it leaves and the reply it writes.
SerialEffect(request, value) ==
    CASE request.name = "SET" ->
            <<Entry(request.vals[1], FALSE, 0), SimpleString("OK")>>
      [] request.name \in {"RPUSH", "LPUSH"} ->
            IF value.t # "none" /\ ~IsListEntry(value) THEN <<value, WrongType>>
            ELSE LET list == IF request.name = "RPUSH"
                             THEN RPushElements(value.els, request.vals)
                             ELSE LPushElements(value.els, request.vals)
                 IN <<ListEntry(list), IntegerReply(Len(list))>>
      [] request.name = "LPOP" ->
            IF value.t = "none" \/ (IsListEntry(value) /\ value.els = <<>>)
            THEN <<value, IF request.opt = "int" THEN ArrayReply(<<>>) ELSE NullBulkString>>
            ELSE IF ~IsListEntry(value) THEN <<value, WrongType>>
            ELSE LET n == ElementsToRemove(request, value.els)
                     removedElements == RemovedElements(value.els, n)
                 IN <<StoreOrDelete(RemainingElements(value.els, n)),
                      IF request.opt = "int" THEN ArrayReply(removedElements)
                      ELSE BulkString(removedElements[1])>>
      [] OTHER -> <<value, NullBulkString>>

\* The store and the two replies are those of c's command followed by d's.
InOrder(c, d) ==
    LET first == SerialEffect(cmd[c], Absent)
        second == SerialEffect(cmd[d], first[1])
    IN /\ DB["k1"] = second[1]
       /\ out[c] = <<first[2]>>
       /\ out[d] = <<second[2]>>

\* C32: when each of the two connections has sent one command on key k1, one
\* of SET, RPUSH, LPUSH and LPOP, and both have replied, the value at k1 and
\* the two replies are those of the two commands run one after the other, in
\* one order or the other.
C32_PairSerializable ==
    (/\ AllIdle /\ nreq["c1"] = 1 /\ nreq["c2"] = 1
     /\ issued \subseteq {"SET", "RPUSH", "LPUSH", "LPOP"}) =>
        InOrder("c1", "c2") \/ InOrder("c2", "c1")

\* The number of places record r takes in the queue clients.
Places(clients, r) == Cardinality({i \in 1..Len(clients) : clients[i] = r})

C40_DoneClosedOnce ==
    /\ [](~crashed)
    /\ [][\A c \in Conns :
             (pc[c] = "notify_pop" /\ pc'[c] # pc[c]) =>
                 /\ ~recs[loc[c].client].done
                 /\ recs'[loc[c].client].done
                 /\ Queued(loc[c].client)
                 /\ loc[c].client \notin Range(blocked'[cmd[c].keys[1]])]_vars

\* C40's case: a record has timed out and left the queue, and a push that
\* came later woke the record registered after it on the same key.
C40_Witness ==
    \E r1 \in Recs, r2 \in Recs :
        /\ r1 < r2 /\ recs[r1].listKey = recs[r2].listKey
        /\ gor[r1] = "exit_timeout" /\ ~recs[r1].done
        /\ recs[r2].done

\* C33: a waiter is not registered beside an element whose push has already
\* run its wake routine: when BLPOP registers its record on a key that holds
\* a non-empty list by then, a push on that key has its wake routine still
\* before it.
C33_ScanAndRegisterAtomic ==
    [][\A c \in Conns :
          (pc[c] = "block" /\ pc'[c] # pc[c] /\ Ready(BlockKey(cmd[c].keys))) =>
              \E d \in Conns : /\ pc[d] = "notify"
                               /\ KeyOf(cmd[d]) = BlockKey(cmd[c].keys)]_vars

\* C36: a record registered with timeout 0 never times out: its goroutine
\* never takes the timer's branch, until it is woken it waits in the queue
\* of its key, and a null reply is written by the timer of a record with
\* another timeout only.
C36_ZeroNeverTimesOut ==
    /\ [](\A r \in Recs :
             recs[r].timeout = 0 =>
                 /\ gor[r] \notin {"timeout", "exit_timeout"}
                 /\ ~recs[r].done => (gor[r] = "select" /\ Queued(r)))
    /\ [][\A d \in Conns :
             (out'[d] # out[d] /\ out'[d][Len(out'[d])].kind = "null") =>
                 \E r \in Recs : /\ recs[r].conn = d /\ recs[r].timeout # 0
                                 /\ gor[r] = "select" /\ gor'[r] = "timeout"]_vars

\* C36's case: a record with timeout 0 still waits in its queue after the
\* record of a BLPOP with a timeout, registered on the same key, has timed
\* out.
C36_Witness ==
    \E r \in Recs, r2 \in Recs :
        /\ recs[r].timeout = 0 /\ Waiting(r) /\ Queued(r)
        /\ recs[r2].listKey = recs[r].listKey /\ recs[r2].timeout # 0
        /\ gor[r2] = "exit_timeout"

\* C37: when no command is in progress, no record waits in the queue of a
\* key that holds a non-empty list.
C37_NoWaiterBesideData ==
    AllIdle => \A r \in Recs : (Waiting(r) /\ Queued(r)) => ~Ready(recs[r].listKey)

\* C38: the store of an XADD keeps every entry the stream held: an entry
\* whose XADD has replied its id is still in the stream after the store of
\* another worker.
C38_AckedEntriesKept ==
    [][\A c \in Conns :
          (pc[c] = "xadd_store" /\ pc'[c] # pc[c] /\ DB[KeyOf(cmd[c])].t = "stream") =>
              \A i \in 1..Len(DB[KeyOf(cmd[c])].ents) :
                  \E j \in 1..Len(DB'[KeyOf(cmd[c])].ents) :
                      DB'[KeyOf(cmd[c])].ents[j] = DB[KeyOf(cmd[c])].ents[i]]_vars

\* C34: BLPOP registers its record on the first of its keys and on no other:
\* the record joins the queue of that key alone; a wake routine wakes a
\* record of the key that was pushed only, the longest-waiting one; and a
\* push on a key nobody is queued on wakes nobody and leaves its elements in
\* the list.
C34_WaiterOnFirstKeyOnly ==
    [][\A c \in Conns :
          /\ (pc[c] = "block" /\ pc'[c] # pc[c]) =>
                /\ Len(recs') = Len(recs) + 1
                /\ recs'[Len(recs')].listKey = cmd[c].keys[1]
                /\ recs'[Len(recs')].conn = c
                /\ \A k \in Keys :
                      blocked'[k] = IF k = cmd[c].keys[1]
                                    THEN Append(blocked[k], Len(recs'))
                                    ELSE blocked[k]
          /\ (pc[c] = "notify" /\ pc'[c] # pc[c]) =>
                IF blocked[KeyOf(cmd[c])] # <<>> /\ Ready(KeyOf(cmd[c]))
                THEN /\ pc'[c] = "notify_pop"
                     /\ loc'[c].client = blocked[KeyOf(cmd[c])][1]
                     /\ recs[loc'[c].client].listKey = KeyOf(cmd[c])
                ELSE /\ pc'[c] = "push_reply" /\ loc'[c].client = 0
                     /\ DB' = DB /\ recs' = recs /\ blocked' = blocked /\ out' = out
          /\ (pc[c] = "notify_pop" /\ pc'[c] # pc[c]) =>
                /\ recs[loc[c].client].listKey = KeyOf(cmd[c])
                /\ \A k \in Keys \ {KeyOf(cmd[c])} :
                      DB'[k] = DB[k] /\ blocked'[k] = blocked[k]]_vars

\* C34's case: the record of a BLPOP k1 k2 that found both keys without
\* elements waits in the queue of k1, beside the elements a later push left
\* at k2.
C34_Witness ==
    \E r \in Recs :
        /\ cmd[recs[r].conn].name = "BLPOP" /\ cmd[recs[r].conn].keys = <<"k1", "k2">>
        /\ pc[recs[r].conn] = "idle"
        /\ recs[r].listKey = "k1" /\ Waiting(r) /\ Queued(r)
        /\ blocked["k2"] = <<>> /\ Ready("k2") /\ AllIdle

\* C35: the step of BLPOP's scan that finds a value that is no List at its
\* key, which it does before it has found any non-empty list, replies the
\* type error and ends the command: nothing is popped and no record is
\* registered.
C35_BLPopTypeError ==
    [][\A c \in Conns :
          LET first == /\ Reads(c) /\ cmd'[c].name = "BLPOP"
                       /\ cmd'[c].opt = "int" /\ Len(cmd'[c].keys) >= 1
              later == /\ pc[c] = "blpop_scan"
                       /\ <<pc'[c], loc'[c]>> # <<pc[c], loc[c]>>
              i == IF first THEN 1 ELSE loc[c].i + 1
          IN ((first \/ later) /\ DB[cmd'[c].keys[i]].t \in {"string", "stream"}) =>
                /\ out'[c] = Append(out[c],
                      [kind |-> "error", n |-> 0, a |-> <<>>,
                       s |-> "WRONGTYPE Operation against a key holding the wrong kind of value"])
                /\ pc'[c] = "idle"
                /\ DB' = DB /\ blocked' = blocked /\ recs' = recs]_vars

\* C35's case: BLPOP k1 k2 passed the missing k1, found a Scalar at k2 and
\* replied the type error; no record was registered.
C35_Witness ==
    \E c \in Conns :
        /\ pc[c] = "idle" /\ cmd[c].name = "BLPOP" /\ cmd[c].keys = <<"k1", "k2">>
        /\ out[c] # <<>> /\ LastReply(c) = WrongType
        /\ DB["k1"].t = "none" /\ DB["k2"].t = "string"
        /\ recs = <<>>

====
